---- MODULE Spec2Model ----
(***************************************************************************)
(* RailNL: routes over a rail network, the quality function and the        *)
(* route constructors (Greedy, BeamSearchAlgorithm,                        *)
(* DijkstraHeuristicAlgorithm).                                            *)
(*                                                                         *)
(* Stations are numbered 1..NumStations in the order load_stations puts    *)
(* them in RailNetwork.stations; the order of the numbers is also the      *)
(* order of their names.  A Connection object is identified by its index   *)
(* in RailNetwork.connections.  A quality value p*10000 - (T*100 + Min)    *)
(* with p = u/n is kept as the fraction num/den with den = n.              *)
(***************************************************************************)
EXTENDS Integers, Sequences, FiniteSets, TLC

VARIABLES connections, used, routes, added, last, pc, cfg, loc, ret

vars == <<connections, used, routes, added, last, pc, cfg, loc, ret>>

\* ---------------------------------------------------------------- bounds
NumStations == 3
MaxConns == 2
MaxRouteObjects == 1
MaxNetConns == 3
MaxRoutesCfg == 2

\* the connection weights and the Route time limit the route-level driver
\* draws from: two connections fit in a route, a third is refused
Weights == {30, 40}
TimeLimits == {70}

\* ------------------------------------------------------------- helpers
StationIds == 1..NumStations

RECURSIVE SumSeq(_)
SumSeq(s) == IF s = <<>> THEN 0 ELSE Head(s) + SumSeq(Tail(s))

Range(s) == {s[i] : i \in 1..Len(s)}

NoDuplicates(s) == \A i, j \in 1..Len(s) : i # j => s[i] # s[j]

\* --------------------------------------------------------- Connection
ConnectionRecs ==
  {c \in [station1 : StationIds, station2 : StationIds, distance : Weights] :
      c.station1 # c.station2}

\* the station pair of a connection as a number that orders the pairs
PairKey(c) ==
  IF c.station1 < c.station2
    THEN c.station1 * (NumStations + 1) + c.station2
    ELSE c.station2 * (NumStations + 1) + c.station1

\* the connection lists a network is loaded with: at most maxc connections
\* drawn from recs (positive weights, no self-loop), no station pair twice,
\* listed in the order of their station pairs
NetworksOver(recs, maxc) ==
  UNION {{net \in [1..k -> recs] :
             \A i \in 1..(k - 1) : PairKey(net[i]) < PairKey(net[i + 1])} :
         k \in 0..maxc}

get_other_station(conn, station) ==
  IF station = conn.station1 THEN conn.station2 ELSE conn.station1

\* Station.connections of station s: destination -> connection, in the order
\* load_connections inserted them
station_connections(conns, s) ==
  SelectSeq([i \in 1..Len(conns) |-> i],
            LAMBDA i : conns[i].station1 = s \/ conns[i].station2 = s)

\* -------------------------------------------------------------- Route
Route(time_limit) ==
  [stations |-> <<>>, total_time |-> 0, connections_used |-> {},
   time_limit |-> time_limit]

\* add_connection with the time-limit test taken on the time already spent
add_connection_late_check(route, conns, ci) ==
  LET conn == conns[ci]
      timed == [route EXCEPT !.total_time = @ + conn.distance]
      lastSt == route.stations[Len(route.stations)]
  IN IF route.total_time > route.time_limit
       THEN [ret |-> FALSE, route |-> route, mark |-> FALSE]
     ELSE IF route.stations = <<>>
       THEN [ret |-> TRUE,
             route |-> [timed EXCEPT
                          !.stations = <<conn.station1, conn.station2>>],
             mark |-> TRUE]
     ELSE IF lastSt = conn.station1
       THEN [ret |-> TRUE,
             route |-> [timed EXCEPT
                          !.stations = Append(@, conn.station2),
                          !.connections_used = @ \cup {ci}],
             mark |-> TRUE]
     ELSE IF lastSt = conn.station2
       THEN [ret |-> TRUE,
             route |-> [timed EXCEPT
                          !.stations = Append(@, conn.station1),
                          !.connections_used = @ \cup {ci}],
             mark |-> TRUE]
     ELSE [ret |-> FALSE, route |-> timed, mark |-> FALSE]

\* Route.add_connection: the returned value, the route afterwards and
\* whether connection.used was set
add_connection(route, conns, ci) ==
  LET conn == conns[ci]
      timed == [route EXCEPT !.total_time = @ + conn.distance]
      lastSt == route.stations[Len(route.stations)]
  IN IF route.total_time + conn.distance > route.time_limit
       THEN [ret |-> FALSE, route |-> route, mark |-> FALSE]
     ELSE IF route.stations = <<>>
       THEN [ret |-> TRUE,
             route |-> [timed EXCEPT
                          !.stations = <<conn.station1, conn.station2>>],
             mark |-> TRUE]
     ELSE IF lastSt = conn.station1
       THEN [ret |-> TRUE,
             route |-> [timed EXCEPT
                          !.stations = Append(@, conn.station2),
                          !.connections_used = @ \cup {ci}],
             mark |-> TRUE]
     ELSE IF lastSt = conn.station2
       THEN [ret |-> TRUE,
             route |-> [timed EXCEPT
                          !.stations = Append(@, conn.station1),
                          !.connections_used = @ \cup {ci}],
             mark |-> TRUE]
     ELSE [ret |-> FALSE, route |-> timed, mark |-> FALSE]

\* -------------------------------------------------------- RailNetwork
\* the exception the division p = used_connections / total_connections
\* raises when the network has no connection
ZeroDivisionError == [raised |-> "ZeroDivisionError"]

\* calculate_quality with the covered connections taken from the routes'
\* connections_used sets instead of the used flags
calculate_quality_from_sets(conns, usedFlags, rts) ==
  LET total_connections == Len(conns)
      used_connections ==
        Cardinality(UNION {rts[i].connections_used : i \in 1..Len(rts)})
      T == Len(rts)
      Min == SumSeq([i \in 1..Len(rts) |-> rts[i].total_time])
  IN IF total_connections = 0
       THEN ZeroDivisionError
       ELSE [num |-> used_connections * 10000
                       - total_connections * (T * 100 + Min),
             den |-> total_connections]

\* RailNetwork.calculate_quality
calculate_quality(conns, usedFlags, rts) ==
  LET total_connections == Len(conns)
      used_connections ==
        Cardinality({i \in 1..Len(conns) : usedFlags[i]})
      T == Len(rts)
      Min == SumSeq([i \in 1..Len(rts) |-> rts[i].total_time])
  IN IF total_connections = 0
       THEN ZeroDivisionError
       ELSE [num |-> used_connections * 10000
                       - total_connections * (T * 100 + Min),
             den |-> total_connections]

\* ------------------------------------------------- route-level driver
NoCall == [op |-> "none"]
NoCfg == [alg |-> "none"]
NoLoc == [at |-> "none"]
NoRet == [set |-> FALSE]

Init ==
  /\ connections \in NetworksOver(ConnectionRecs, MaxConns)
  /\ used = [i \in 1..Len(connections) |-> FALSE]
  /\ routes = <<>>
  /\ added = <<>>
  /\ last = NoCall
  /\ pc = "client"
  /\ cfg = NoCfg
  /\ loc = NoLoc
  /\ ret = NoRet

\* route = Route(time_limit); network.routes.append(route)
NewRoute(tl) ==
  /\ pc = "client"
  /\ Len(routes) < MaxRouteObjects
  /\ routes' = Append(routes, Route(tl))
  /\ added' = Append(added, <<>>)
  /\ last' = [op |-> "Route", r |-> Len(routes) + 1]
  /\ UNCHANGED <<connections, used, pc, cfg, loc, ret>>

\* network.routes[r].add_connection(network.connections[ci])
AddConnection(r, ci) ==
  /\ pc = "client"
  /\ r \in 1..Len(routes)
  /\ ci \in 1..Len(connections)
  /\ LET res == add_connection(routes[r], connections, ci)
     IN /\ routes' = [routes EXCEPT ![r] = res.route]
        /\ used' = IF res.mark THEN [used EXCEPT ![ci] = TRUE] ELSE used
        /\ added' = IF res.ret THEN [added EXCEPT ![r] = Append(@, ci)]
                    ELSE added
        /\ last' = [op |-> "add_connection", r |-> r, c |-> ci,
                    ret |-> res.ret]
  /\ UNCHANGED <<connections, pc, cfg, loc, ret>>

\* network.calculate_quality()
CalculateQuality ==
  /\ pc = "client"
  /\ last' = [op |-> "calculate_quality",
              ret |-> calculate_quality(connections, used, routes)]
  /\ UNCHANGED <<connections, used, routes, added, pc, cfg, loc, ret>>

Next ==
  \/ \E tl \in TimeLimits : NewRoute(tl)
  \/ \E r \in 1..MaxRouteObjects, ci \in 1..MaxConns : AddConnection(r, ci)
  \/ CalculateQuality

Spec == Init /\ [][Next]_vars

\* ------------------------------------------------------- constructors
\* The constructors run on a network loaded with connections of weight 10
\* or 15; a run is configured with max_routes in 1..MaxRoutesCfg and a time
\* limit that either binds after one connection or never.
ConsWeights == {10, 15}
ConsTimeLimits == {20, 120}
ConsConnectionRecs ==
  {c \in [station1 : StationIds, station2 : StationIds,
          distance : ConsWeights] : c.station1 # c.station2}

\* the time limit of a Route() built without argument
DefaultTimeLimit == 180

\* no station (Python's None)
None == 0

\* list.sort(key, reverse=True) / sorted(..., reverse=True): descending by
\* key, elements with equal keys keep their order
RECURSIVE SortDescBy(_, _)
SortDescBy(seq, key) ==
  IF seq = <<>> THEN <<>>
  ELSE LET i == CHOOSE i \in 1..Len(seq) :
                  /\ \A j \in 1..Len(seq) : key[seq[j]] <= key[seq[i]]
                  /\ \A j \in 1..(i - 1) : key[seq[j]] < key[seq[i]]
       IN <<seq[i]>> \o SortDescBy(SubSeq(seq, 1, i - 1)
                                     \o SubSeq(seq, i + 1, Len(seq)), key)

\* RailNetwork.stations in load order
all_station_names == [i \in 1..NumStations |-> i]

\* ------------------------------------------------------------- Greedy
\* list.sort(key) without reverse: ascending by key, stable
RECURSIVE SortAscBy(_, _)
SortAscBy(seq, key) ==
  IF seq = <<>> THEN <<>>
  ELSE LET i == CHOOSE i \in 1..Len(seq) :
                  /\ \A j \in 1..Len(seq) : key[seq[j]] >= key[seq[i]]
                  /\ \A j \in 1..(i - 1) : key[seq[j]] > key[seq[i]]
       IN <<seq[i]>> \o SortAscBy(SubSeq(seq, 1, i - 1)
                                    \o SubSeq(seq, i + 1, Len(seq)), key)

\* get_most_connections with the stations ordered fewest connections first
get_most_connections_ascending(conns) ==
  SortAscBy(all_station_names,
            [s \in StationIds |-> Len(station_connections(conns, s))])

\* Greedy.get_most_connections
get_most_connections(conns) ==
  SortDescBy(all_station_names,
             [s \in StationIds |-> Len(station_connections(conns, s))])

\* the three tests of create_route on a connection: not used, within the
\* max time, leading to a station not visited in this route
greedy_valid(conns, max_time, st, ci) ==
  /\ ~st.used[ci]
  /\ st.route.total_time + conns[ci].distance <= max_time
  /\ get_other_station(conns[ci], st.current_station)
       \notin st.visited_stations

\* the for loop of Greedy.create_route over station.connections.items(),
\* from position k on; st holds route, current_station, visited_stations
\* and the used flags
RECURSIVE create_route_for(_, _, _, _, _)
create_route_for(conns, max_time, adj, k, st) ==
  IF k > Len(adj) THEN [advanced |-> FALSE, st |-> st]
  ELSE
    LET ci == adj[k]
        conn == conns[ci]
        other_station == get_other_station(conn, st.current_station)
    IN IF greedy_valid(conns, max_time, st, ci)
         THEN LET res == add_connection(st.route, conns, ci)
                  st2 == [st EXCEPT
                            !.route = res.route,
                            !.used = IF res.mark
                                       THEN [@ EXCEPT ![ci] = TRUE] ELSE @]
              IN IF res.ret
                   THEN [advanced |-> TRUE,
                         st |-> [st2 EXCEPT
                                   !.current_station = other_station]]
                   ELSE create_route_for(conns, max_time, adj, k + 1, st2)
         ELSE create_route_for(conns, max_time, adj, k + 1, st)

\* the while loop of Greedy.create_route
RECURSIVE create_route_while(_, _, _)
create_route_while(conns, max_time, st) ==
  LET st1 == [st EXCEPT !.visited_stations = @ \cup {st.current_station}]
      res == create_route_for(conns, max_time,
                              station_connections(conns, st1.current_station),
                              1, st1)
  IN IF res.advanced THEN create_route_while(conns, max_time, res.st)
     ELSE res.st

\* Greedy.create_route: the route built and the used flags afterwards
create_route(conns, usedFlags, max_time, start_station) ==
  LET st == create_route_while(conns, max_time,
              [route |-> Route(DefaultTimeLimit),
               current_station |-> start_station,
               visited_stations |-> {},
               used |-> usedFlags])
  IN [route |-> st.route, used |-> st.used,
      current_station |-> st.current_station,
      visited_stations |-> st.visited_stations]

InitCons ==
  /\ connections \in NetworksOver(ConsConnectionRecs, MaxNetConns)
  /\ used = [i \in 1..Len(connections) |-> FALSE]
  /\ routes = <<>>
  /\ added = <<>>
  /\ last = NoCall
  /\ pc = "idle"
  /\ cfg = NoCfg
  /\ loc = NoLoc
  /\ ret = NoRet

\* if len(self.network.routes) >= self.max_routes: break
greedy_limit_reached(rts, max_routes) ==
  Len(rts) >= max_routes

\* Greedy(network, config).runGreedy() up to the for loop: reset the flags,
\* clear network.routes, sort the stations
RunGreedy(max_routes, time_limit) ==
  /\ pc = "idle"
  /\ ~ret.set
  /\ cfg' = [alg |-> "Greedy", max_routes |-> max_routes,
             time_limit |-> time_limit]
  /\ used' = [i \in 1..Len(connections) |-> FALSE]
  /\ routes' = <<>>
  /\ loc' = [at |-> "runGreedy",
             sorted_stations |-> get_most_connections(connections),
             used_stations |-> {},
             idx |-> 1,
             tried |-> <<>>,
             built |-> <<>>]
  /\ ret' = NoRet
  /\ pc' = "greedy_for"
  /\ UNCHANGED <<connections, added, last>>

\* one pass of the for loop of runGreedy over sorted_stations
GreedySeed ==
  /\ pc = "greedy_for"
  /\ loc.idx <= Len(loc.sorted_stations)
  /\ LET start_station == loc.sorted_stations[loc.idx]
         cr == create_route(connections, used, cfg.time_limit, start_station)
         skipped == start_station \in loc.used_stations
         routes1 == IF ~skipped /\ cr.route.connections_used # {}
                      THEN Append(routes, cr.route) ELSE routes
         stop == ~skipped /\ greedy_limit_reached(routes1, cfg.max_routes)
     IN /\ routes' = routes1
        /\ used' = IF skipped THEN used ELSE cr.used
        /\ loc' = [loc EXCEPT
                     !.used_stations = @ \cup {start_station},
                     !.idx = @ + 1,
                     !.tried = IF skipped THEN @ ELSE Append(@, start_station),
                     !.built = IF skipped THEN @ ELSE Append(@, cr)]
        /\ pc' = IF stop \/ loc.idx = Len(loc.sorted_stations)
                   THEN "greedy_return" ELSE "greedy_for"
  /\ UNCHANGED <<connections, added, last, cfg, ret>>

\* return self.network.calculate_quality()
GreedyReturn ==
  /\ pc = "greedy_return"
  /\ ret' = [set |-> TRUE, alg |-> "Greedy",
             quality |-> calculate_quality(connections, used, routes),
             routes |-> routes]
  /\ pc' = "idle"
  /\ UNCHANGED <<connections, used, routes, added, last, cfg, loc>>

\* ------------------------------------------------ BeamSearchAlgorithm
BeamWidths == {1}

\* BeamSearchAlgorithm.score_partial_route
score_partial_route(conns, usedFlags, route) ==
  LET connection_value == Cardinality(route.connections_used) * 100
      time_penalty == route.total_time
      unused_nearby ==
        Cardinality({i \in 1..Len(conns) :
                       /\ ~usedFlags[i]
                       /\ \/ conns[i].station1 \in Range(route.stations)
                          \/ conns[i].station2 \in Range(route.stations)})
  IN connection_value - time_penalty + unused_nearby * 10

\* list comparison p < q
LexLess(p, q) ==
  \/ \E i \in 1..Len(p) :
        /\ i <= Len(q)
        /\ p[i] < q[i]
        /\ \A j \in 1..(i - 1) : p[j] = q[j]
  \/ /\ Len(p) < Len(q)
     /\ \A j \in 1..Len(p) : p[j] = q[j]

\* comparison of two beam tuples (-score, dest, path, ...); two tuples of
\* one beam never have the same path, so the later fields are not reached
TupleLess(a, b) ==
  \/ a.negscore < b.negscore
  \/ /\ a.negscore = b.negscore
     /\ \/ a.current_station < b.current_station
        \/ /\ a.current_station = b.current_station
           /\ LexLess(a.path, b.path)

RECURSIVE SortTuples(_)
SortTuples(seq) ==
  IF seq = <<>> THEN <<>>
  ELSE LET i == CHOOSE i \in 1..Len(seq) :
                  \A j \in 1..Len(seq) : j # i => ~TupleLess(seq[j], seq[i])
       IN <<seq[i]>> \o SortTuples(SubSeq(seq, 1, i - 1)
                                     \o SubSeq(seq, i + 1, Len(seq)))

\* heapq.nsmallest(n, seq)
nsmallest(n, seq) ==
  LET sorted == SortTuples(seq)
  IN SubSeq(sorted, 1, IF n < Len(sorted) THEN n ELSE Len(sorted))

\* the connection test of find_route_beam without the visited set
beam_valid_revisiting(conns, time_limit, e, ci) ==
  e.total_time + conns[ci].distance <= time_limit

\* the connections find_route_beam expands a beam tuple over: the
\* destination is not in visited and the new time is within the limit
beam_valid(conns, time_limit, e, ci) ==
  /\ get_other_station(conns[ci], e.current_station) \notin Range(e.path)
  /\ e.total_time + conns[ci].distance <= time_limit

\* the tuples one beam tuple expands to, in adjacency order
expand_tuple(conns, usedFlags, time_limit, e) ==
  LET adj == station_connections(conns, e.current_station)
      ok(ci) == beam_valid(conns, time_limit, e, ci)
      kept == SelectSeq(adj, ok)
  IN [k \in 1..Len(kept) |->
        LET ci == kept[k]
            dest == get_other_station(conns[ci], e.current_station)
            new_route ==
              [stations |-> Append(e.path, dest),
               total_time |-> e.total_time + conns[ci].distance,
               connections_used |-> e.route.connections_used \cup {ci},
               time_limit |-> DefaultTimeLimit]
        IN [negscore |-> 0 - score_partial_route(conns, usedFlags, new_route),
            current_station |-> dest,
            path |-> Append(e.path, dest),
            total_time |-> e.total_time + conns[ci].distance,
            route |-> new_route]]

RECURSIVE expand_beam(_, _, _, _)
expand_beam(conns, usedFlags, time_limit, beam) ==
  IF beam = <<>> THEN <<>>
  ELSE expand_tuple(conns, usedFlags, time_limit, Head(beam))
         \o expand_beam(conns, usedFlags, time_limit, Tail(beam))

\* best_route / best_score after the tuples of new_beam were scored in order
RECURSIVE update_best(_, _)
update_best(best, new_beam) ==
  IF new_beam = <<>> THEN best
  ELSE LET e == Head(new_beam)
       IN update_best(IF ~best.found \/ (0 - e.negscore) > best.score
                        THEN [found |-> TRUE, route |-> e.route,
                              score |-> 0 - e.negscore]
                        ELSE best,
                      Tail(new_beam))

\* the while loop of find_route_beam
RECURSIVE beam_while(_, _, _, _, _, _)
beam_while(conns, usedFlags, beam_width, time_limit, beam, best) ==
  IF beam = <<>> THEN best
  ELSE LET new_beam == expand_beam(conns, usedFlags, time_limit, beam)
       IN beam_while(conns, usedFlags, beam_width, time_limit,
                     nsmallest(beam_width, new_beam),
                     update_best(best, new_beam))

\* BeamSearchAlgorithm.find_route_beam; found = FALSE is the result None
find_route_beam(conns, usedFlags, beam_width, time_limit, start_station) ==
  LET initial_route == [Route(DefaultTimeLimit) EXCEPT
                          !.stations = <<start_station>>]
  IN beam_while(conns, usedFlags, beam_width, time_limit,
                <<[negscore |-> 0, current_station |-> start_station,
                   path |-> <<start_station>>, total_time |-> 0,
                   route |-> initial_route]>>,
                [found |-> FALSE, route |-> initial_route, score |-> 0])

\* the for loop of create_solution over stations_by_connections: the best
\* route and its start station
RECURSIVE best_of_stations(_, _, _)
best_of_stations(found, order, best) ==
  IF order = <<>> THEN best
  ELSE LET r == found[Head(order)]
           score == Cardinality(r.route.connections_used) * 100
                      - r.route.total_time
       IN best_of_stations(found, Tail(order),
            IF r.found /\ (~best.found \/ score > best.score)
              THEN [found |-> TRUE, route |-> r.route, score |-> score,
                    station |-> Head(order)]
              ELSE best)

\* the loop test of create_solution letting one more round in
beam_continue_one_more(routes_created, max_routes) ==
  routes_created <= max_routes

\* while routes_created < max_routes
beam_continue(routes_created, max_routes) ==
  routes_created < max_routes

\* BeamSearchAlgorithm(rail_network, beam_width, time_limit, max_routes)
\* .create_solution() up to the while loop
BeamCreateSolution(max_routes, time_limit, beam_width) ==
  /\ pc = "idle"
  /\ ~ret.set
  /\ cfg' = [alg |-> "BeamSearchAlgorithm", max_routes |-> max_routes,
             time_limit |-> time_limit, beam_width |-> beam_width]
  /\ used' = [i \in 1..Len(connections) |-> FALSE]
  /\ routes' = <<>>
  /\ loc' = [at |-> "create_solution", routes_created |-> 0,
             all_stations |-> all_station_names, found |-> <<>>]
  /\ ret' = NoRet
  /\ pc' = "beam_while"
  /\ UNCHANGED <<connections, added, last>>

\* one pass of the while loop of create_solution
BeamRound ==
  /\ pc = "beam_while"
  /\ beam_continue(loc.routes_created, cfg.max_routes)
  /\ LET unused_count ==
           [s \in StationIds |->
              Cardinality({i \in Range(station_connections(connections, s)) :
                             ~used[i]})]
         stations_by_connections == SortDescBy(loc.all_stations, unused_count)
         found == [s \in Range(loc.all_stations) |->
                     find_route_beam(connections, used, cfg.beam_width,
                                     cfg.time_limit, s)]
         best == best_of_stations(found, stations_by_connections,
                   [found |-> FALSE, route |-> Route(DefaultTimeLimit),
                    score |-> 0, station |-> None])
     IN IF ~best.found
          THEN /\ pc' = "beam_return"
               /\ loc' = [loc EXCEPT
                            !.found = [k \in 1..Len(stations_by_connections)
                                         |-> found[stations_by_connections[k]]]]
               /\ UNCHANGED <<used, routes>>
          ELSE /\ used' = [i \in 1..Len(connections) |->
                             used[i] \/ i \in best.route.connections_used]
               /\ routes' = Append(routes, best.route)
               /\ loc' = [loc EXCEPT
                            !.routes_created = @ + 1,
                            !.all_stations =
                               SelectSeq(@, LAMBDA s : s # best.station),
                            !.found = [k \in 1..Len(stations_by_connections)
                                         |-> found[stations_by_connections[k]]]]
               /\ pc' = "beam_while"
  /\ UNCHANGED <<connections, added, last, cfg, ret>>

\* return self.rail_network.calculate_quality()
BeamReturn ==
  /\ \/ pc = "beam_return"
     \/ pc = "beam_while"
        /\ ~beam_continue(loc.routes_created, cfg.max_routes)
  /\ ret' = [set |-> TRUE, alg |-> "BeamSearchAlgorithm",
             quality |-> calculate_quality(connections, used, routes),
             routes |-> routes]
  /\ pc' = "idle"
  /\ UNCHANGED <<connections, used, routes, added, last, cfg, loc>>

\* ----------------------------------------- DijkstraHeuristicAlgorithm
\* float('inf'): larger than every distance within a time limit
Infinity == 1000000

\* no predecessor (Python's None)
NoPredecessor == [station |-> None, connection |-> 0]

\* the smallest (distance, station) tuple of the priority queue
heap_min(pq) ==
  CHOOSE e \in pq :
    \A f \in pq : \/ e[1] < f[1]
                  \/ e[1] = f[1] /\ e[2] <= f[2]

\* the for loop of find_route over the connections of current_station, from
\* position k on; st holds distances, predecessors and the queue
RECURSIVE relax_for(_, _, _, _, _, _, _, _)
relax_for(conns, visited_connections, time_limit, current_station, current_distance, adj, k, st) ==
  IF k > Len(adj) THEN st
  ELSE
    LET ci == adj[k]
        neighbor == get_other_station(conns[ci], current_station)
        distance == current_distance + conns[ci].distance
        st2 == IF /\ ci \notin visited_connections
                  /\ distance < st.distances[neighbor]
                  /\ distance <= time_limit
                 THEN [distances |->
                         [st.distances EXCEPT ![neighbor] = distance],
                       pq |-> st.pq \cup {<<distance, neighbor>>},
                       predecessors |->
                         [st.predecessors EXCEPT ![neighbor] =
                            [station |-> current_station,
                             connection |-> ci]]]
                 ELSE st
    IN relax_for(conns, visited_connections, time_limit, current_station,
                 current_distance, adj, k + 1, st2)

\* the while loop of find_route over the priority queue
RECURSIVE dijkstra_while(_, _, _, _)
dijkstra_while(conns, visited_connections, time_limit, st) ==
  IF st.pq = {} THEN st
  ELSE LET e == heap_min(st.pq)
           popped == [st EXCEPT !.pq = @ \ {e}]
       IN IF e[1] > time_limit THEN popped
          ELSE dijkstra_while(conns, visited_connections, time_limit,
                 relax_for(conns, visited_connections, time_limit, e[2], e[1],
                           station_connections(conns, e[2]), 1, popped))

\* the choice of end_station in find_route, over the stations in dict order
RECURSIVE farthest_station(_, _, _, _, _)
farthest_station(st, time_limit, order, end_station, max_distance) ==
  IF order = <<>> THEN end_station
  ELSE LET station == Head(order)
           better == /\ st.distances[station] <= time_limit
                     /\ st.predecessors[station] # NoPredecessor
                     /\ st.distances[station] > max_distance
       IN farthest_station(st, time_limit, Tail(order),
                           IF better THEN station ELSE end_station,
                           IF better THEN st.distances[station]
                                     ELSE max_distance)

\* the path from the source to end_station along the predecessors, as the
\* connections in travelling order
RECURSIVE path_to(_, _)
path_to(st, end_station) ==
  IF end_station = None \/ st.predecessors[end_station] = NoPredecessor
    THEN <<>>
    ELSE Append(path_to(st, st.predecessors[end_station].station),
                st.predecessors[end_station].connection)

\* DijkstraHeuristicAlgorithm.add_connection_to_route: the returned value,
\* the route afterwards and whether connection.used was set
add_connection_to_route(route, conns, ci) ==
  LET conn == conns[ci]
      timed == [route EXCEPT !.total_time = @ + conn.distance]
      n == Len(route.stations)
      last_station == route.stations[n]
      first_station == route.stations[1]
      swapped == <<route.stations[n]>> \o SubSeq(route.stations, 2, n - 1)
                   \o <<route.stations[1]>>
      accept(stations) ==
        [ret |-> TRUE,
         route |-> [timed EXCEPT !.stations = stations,
                                 !.connections_used = @ \cup {ci}],
         mark |-> TRUE]
  IN IF route.total_time + conn.distance > route.time_limit
       THEN [ret |-> FALSE, route |-> route, mark |-> FALSE]
     ELSE IF route.stations = <<>>
       THEN accept(<<conn.station1, conn.station2>>)
     ELSE IF last_station = conn.station1
       THEN accept(Append(route.stations, conn.station2))
     ELSE IF last_station = conn.station2
       THEN accept(Append(route.stations, conn.station1))
     ELSE IF n = 2
       THEN IF first_station = conn.station1
              THEN accept(Append(swapped, conn.station2))
            ELSE IF first_station = conn.station2
              THEN accept(Append(swapped, conn.station1))
            ELSE accept(route.stations)
     ELSE [ret |-> FALSE, route |-> timed, mark |-> FALSE]

\* the last for loop of find_route: the connections of path go to the route
RECURSIVE add_path(_, _, _)
add_path(conns, path, st) ==
  IF path = <<>> THEN st
  ELSE LET res == add_connection_to_route(st.route, conns, Head(path))
       IN add_path(conns, Tail(path),
                   [route |-> res.route,
                    used |-> IF res.mark
                               THEN [st.used EXCEPT ![Head(path)] = TRUE]
                               ELSE st.used])

\* RailNetwork.stations, in load order, of the network that holds conns:
\* the stations 1..NumStations and every station of a connection
loaded_station_names(conns) ==
  LET names == StationIds
                 \cup UNION {{conns[i].station1, conns[i].station2} :
                               i \in 1..Len(conns)}
  IN [i \in 1..Cardinality(names) |-> i]

\* DijkstraHeuristicAlgorithm.find_route: the route and the used flags
\* afterwards
find_route(conns, usedFlags, time_limit, source, visited_connections) ==
  LET stations == loaded_station_names(conns)
      st0 == [distances |->
                [s \in Range(stations) |->
                   IF s = source THEN 0 ELSE Infinity],
              pq |-> {<<0, source>>},
              predecessors |-> [s \in Range(stations) |-> NoPredecessor]]
      st == dijkstra_while(conns, visited_connections, time_limit, st0)
      end_station == farthest_station(st, time_limit, stations, None, 0)
      path == path_to(st, end_station)
  IN add_path(conns, path,
              [route |-> Route(time_limit), used |-> usedFlags])

\* the dictionary start_stations of calculate_start_station: the stations in
\* insertion order and their counts of unvisited connections
RECURSIVE start_station_keys(_, _, _, _)
start_station_keys(conns, visited_connections, k, keys) ==
  IF k > Len(conns) THEN keys
  ELSE IF k \in visited_connections
    THEN start_station_keys(conns, visited_connections, k + 1, keys)
  ELSE LET k1 == IF conns[k].station1 \in Range(keys) THEN keys
                 ELSE Append(keys, conns[k].station1)
           k2 == IF conns[k].station2 \in Range(k1) THEN k1
                 ELSE Append(k1, conns[k].station2)
       IN start_station_keys(conns, visited_connections, k + 1, k2)

unvisited_count(conns, visited_connections, s) ==
  Cardinality({i \in 1..Len(conns) :
                 /\ i \notin visited_connections
                 /\ s \in {conns[i].station1, conns[i].station2}})

\* the last loop of calculate_start_station, which starts from
\* min_connections = 0
RECURSIVE fewest_below(_, _, _, _, _)
fewest_below(conns, visited_connections, keys, min_connections, start_station) ==
  IF keys = <<>> THEN start_station
  ELSE LET c == unvisited_count(conns, visited_connections, Head(keys))
       IN IF c < min_connections
            THEN fewest_below(conns, visited_connections, Tail(keys), c,
                              Head(keys))
            ELSE fewest_below(conns, visited_connections, Tail(keys),
                              min_connections, start_station)

\* DijkstraHeuristicAlgorithm.calculate_start_station
calculate_start_station(conns, visited_connections) ==
  LET keys == start_station_keys(conns, visited_connections, 1, <<>>)
      ones == SelectSeq(keys,
                LAMBDA s : unvisited_count(conns, visited_connections, s) = 1)
  IN IF keys = <<>> THEN None
     ELSE IF ones # <<>> THEN Head(ones)
     ELSE fewest_below(conns, visited_connections, keys, 0, None)

\* the connection between two stations, 0 when there is none
\* (Station.connections.get)
connection_between(conns, a, b) ==
  LET hits == {i \in 1..Len(conns) :
                 {conns[i].station1, conns[i].station2} = {a, b}}
  IN IF hits = {} THEN 0 ELSE CHOOSE i \in hits : TRUE

\* DijkstraHeuristicAlgorithm.combine_routes, from position i on
RECURSIVE combine_routes_from(_, _, _, _)
combine_routes_from(conns, time_limit, rts, i) ==
  IF i >= Len(rts) THEN rts
  ELSE
    LET route1 == rts[i]
        route2 == rts[i + 1]
        end_station == route1.stations[Len(route1.stations)]
        start_station == route2.stations[1]
        connection == connection_between(conns, end_station, start_station)
        combined_route ==
          [stations |-> route1.stations \o route2.stations,
           connections_used |-> route1.connections_used
                                  \cup route2.connections_used
                                  \cup {connection},
           total_time |-> route1.total_time + route2.total_time
                            + conns[connection].distance,
           time_limit |-> time_limit]
    IN IF route1.total_time + route2.total_time >= time_limit
         THEN combine_routes_from(conns, time_limit, rts, i + 1)
       ELSE IF /\ connection # 0
               /\ route1.total_time + route2.total_time
                    + conns[connection].distance <= time_limit
         THEN combine_routes_from(conns, time_limit,
                SubSeq(rts, 1, i - 1) \o <<combined_route>>
                  \o SubSeq(rts, i + 2, Len(rts)), i)
       ELSE combine_routes_from(conns, time_limit, rts, i + 1)

combine_routes(conns, time_limit, rts) ==
  combine_routes_from(conns, time_limit, rts, 1)

\* while len(routes) < self.max_routes
dijkstra_continue(rts, max_routes) ==
  Len(rts) < max_routes

\* DijkstraHeuristicAlgorithm(rail_network, time_limit, max_routes)
\* .find_best_solution() up to the while loop
DijkstraFindBestSolution(max_routes, time_limit) ==
  /\ pc = "idle"
  /\ ~ret.set
  /\ cfg' = [alg |-> "DijkstraHeuristicAlgorithm", max_routes |-> max_routes,
             time_limit |-> time_limit]
  /\ loc' = [at |-> "find_best_solution", routes |-> <<>>,
             visited_connections |-> {}]
  /\ ret' = NoRet
  /\ pc' = "dijkstra_while"
  /\ UNCHANGED <<connections, used, routes, added, last>>

\* one pass of the while loop of find_best_solution
DijkstraRound ==
  /\ pc = "dijkstra_while"
  /\ dijkstra_continue(loc.routes, cfg.max_routes)
  /\ LET start_station ==
           calculate_start_station(connections, loc.visited_connections)
         fr == find_route(connections, used, cfg.time_limit, start_station,
                          loc.visited_connections)
     IN IF start_station = None
          THEN /\ pc' = "dijkstra_combine"
               /\ UNCHANGED <<used, loc>>
        ELSE IF fr.route.connections_used = {}
          THEN /\ pc' = "dijkstra_combine"
               /\ used' = fr.used
               /\ UNCHANGED loc
        ELSE /\ pc' = "dijkstra_while"
             /\ used' = fr.used
             /\ loc' = [loc EXCEPT
                          !.routes = Append(@, fr.route),
                          !.visited_connections =
                             @ \cup fr.route.connections_used]
  /\ UNCHANGED <<connections, routes, added, last, cfg, ret>>

\* routes = combine_routes(routes); rail_network.routes = routes;
\* return quality, routes
DijkstraReturn ==
  /\ \/ pc = "dijkstra_combine"
     \/ pc = "dijkstra_while"
        /\ ~dijkstra_continue(loc.routes, cfg.max_routes)
  /\ LET combined == combine_routes(connections, cfg.time_limit, loc.routes)
     IN /\ routes' = combined
        /\ loc' = [loc EXCEPT !.routes = combined]
        /\ ret' = [set |-> TRUE, alg |-> "DijkstraHeuristicAlgorithm",
                   quality |-> calculate_quality(connections, used, combined),
                   routes |-> combined]
  /\ pc' = "idle"
  /\ UNCHANGED <<connections, used, added, last, cfg>>

\* networks with one station more than NumStations, so that a station can
\* keep an unvisited connection after a route has passed through it
DijkstraConnectionRecs ==
  {c \in [station1 : 1..(NumStations + 1), station2 : 1..(NumStations + 1),
          distance : ConsWeights] : c.station1 # c.station2}

InitDijkstra ==
  /\ connections \in NetworksOver(DijkstraConnectionRecs, MaxNetConns)
  /\ used = [i \in 1..Len(connections) |-> FALSE]
  /\ routes = <<>>
  /\ added = <<>>
  /\ last = NoCall
  /\ pc = "idle"
  /\ cfg = NoCfg
  /\ loc = NoLoc
  /\ ret = NoRet

NextDijkstra ==
  \/ \E mr \in 1..MaxRoutesCfg, tl \in ConsTimeLimits :
        DijkstraFindBestSolution(mr, tl)
  \/ DijkstraRound
  \/ DijkstraReturn

SpecDijkstra == InitDijkstra /\ [][NextDijkstra]_vars

\* ------------------------------------------------- DijkstraAlgorithm
\* a dict of Graph.graph: the nodes in insertion order and the weight of
\* graph[a][b], 0 where the inner dict has no key b
EmptyDict ==
  [nodes |-> <<>>,
   weight |-> [a \in StationIds |-> [b \in StationIds |-> 0]]]

\* Graph.add_edge
add_edge(g, node1, node2, weight) ==
  LET n1 == IF node1 \in Range(g.nodes) THEN g.nodes
            ELSE Append(g.nodes, node1)
      n2 == IF node2 \in Range(n1) THEN n1 ELSE Append(n1, node2)
  IN [nodes |-> n2,
      weight |-> [g.weight EXCEPT ![node1][node2] = weight,
                                  ![node2][node1] = weight]]

\* Graph.add_connections, from connection k on
RECURSIVE add_connections(_, _, _)
add_connections(g, conns, k) ==
  IF k > Len(conns) THEN g
  ELSE add_connections(add_edge(g, conns[k].station1, conns[k].station2,
                                conns[k].distance),
                       conns, k + 1)

\* the while loop of Graph.shortest_distances
RECURSIVE shortest_distances_while(_, _, _)
shortest_distances_while(g, distances, pq) ==
  IF pq = {} THEN distances
  ELSE
    LET top == heap_min(pq)
        current_distance == top[1]
        current_node == top[2]
        rest == pq \ {top}
        shorter == {n \in DOMAIN distances :
                      /\ g.weight[current_node][n] # 0
                      /\ current_distance + g.weight[current_node][n]
                           < distances[n]}
    IN IF current_distance > distances[current_node]
         THEN shortest_distances_while(g, distances, rest)
       ELSE shortest_distances_while(g,
              [n \in DOMAIN distances |->
                 IF n \in shorter
                   THEN current_distance + g.weight[current_node][n]
                   ELSE distances[n]],
              rest \cup {<<current_distance + g.weight[current_node][n], n>> :
                           n \in shorter})

\* Graph.shortest_distances
shortest_distances(g, source) ==
  shortest_distances_while(g,
    [n \in Range(g.nodes) |-> IF n = source THEN 0 ELSE Infinity],
    {<<0, source>>})

\* DijkstraAlgorithm.calculate_start_station, from connection k on: the
\* station and the start_stations set afterwards
RECURSIVE da_calculate_start_station(_, _, _, _)
da_calculate_start_station(conns, start_stations, visited, k) ==
  IF k > Len(conns)
    THEN [station |-> None, start_stations |-> start_stations]
  ELSE IF /\ conns[k].station1 \notin start_stations
          /\ conns[k].station1 \notin visited
    THEN [station |-> conns[k].station1,
          start_stations |-> start_stations \cup {conns[k].station1}]
  ELSE da_calculate_start_station(conns, start_stations, visited, k + 1)

\* the for loop of find_next_station over the distances: the first station
\* at the smallest distance among those not visited, other than
\* start_station and not paired with it in visited_connections
nearest_station(g, distances, start_station, visited, visited_connections) ==
  LET eligible == {i \in 1..Len(g.nodes) :
                     /\ g.nodes[i] \notin visited
                     /\ g.nodes[i] # start_station
                     /\ {start_station, g.nodes[i]} \notin visited_connections
                     /\ distances[g.nodes[i]] < Infinity}
  IN IF eligible = {}
       THEN [next_station |-> None, shortest_distance |-> Infinity]
     ELSE \* the index is bound once and read twice
          CHOOSE r \in
            {[next_station |-> g.nodes[i],
              shortest_distance |-> distances[g.nodes[i]]] :
               i \in {j \in eligible :
                        \A k \in eligible :
                          /\ distances[g.nodes[k]] >= distances[g.nodes[j]]
                          /\ k < j => distances[g.nodes[k]]
                                        > distances[g.nodes[j]]}} : TRUE

\* DijkstraAlgorithm.find_next_station
find_next_station(g, start_station, visited, visited_connections) ==
  nearest_station(g, shortest_distances(g, start_station), start_station,
                  visited, visited_connections)

\* the while loop of DijkstraAlgorithm.traject; traject_pass is one pass
\* with the result of find_next_station
RECURSIVE traject_while(_, _, _, _)
RECURSIVE traject_pass(_, _, _, _, _)
traject_pass(g, time_limit, start_station, st, found) ==
  IF \/ found.next_station = None
     \/ st.current_minutes + found.shortest_distance > time_limit
    THEN st
  ELSE traject_while(g, time_limit, found.next_station,
         [visited |-> st.visited \cup {found.next_station},
          current_traject |->
            Append(st.current_traject,
                   <<start_station, found.next_station,
                     found.shortest_distance>>),
          visited_connections |->
            st.visited_connections
              \cup {{start_station, found.next_station}},
          current_minutes |-> st.current_minutes + found.shortest_distance])

traject_while(g, time_limit, start_station, st) ==
  IF ~(st.current_minutes < time_limit) THEN st
  ELSE traject_pass(g, time_limit, start_station, st,
         find_next_station(g, start_station, st.visited,
                           st.visited_connections))

\* what traject returns after its while loop: found is FALSE where the code
\* returns None for the trajectory
traject_return(start_stations, st) ==
  [found |-> Len(st.current_traject) > 0,
   current_traject |-> st.current_traject,
   current_minutes |->
     IF Len(st.current_traject) > 0 THEN st.current_minutes ELSE 0,
   visited_connections |-> st.visited_connections,
   start_stations |-> start_stations]

\* DijkstraAlgorithm.traject from the start station on
traject_from(g, time_limit, visited_connections, start) ==
  IF start.station = None
    THEN [found |-> FALSE, current_traject |-> <<>>, current_minutes |-> 0,
          visited_connections |-> visited_connections,
          start_stations |-> start.start_stations]
  ELSE traject_return(start.start_stations,
         traject_while(g, time_limit, start.station,
           [visited |-> {start.station}, current_traject |-> <<>>,
            visited_connections |-> visited_connections,
            current_minutes |-> 0]))

\* DijkstraAlgorithm.traject: the sets start_stations and
\* visited_connections are the caller's objects as the call leaves them
traject(conns, g, time_limit, start_stations, visited_connections) ==
  traject_from(g, time_limit, visited_connections,
               da_calculate_start_station(conns, start_stations, {}, 1))

\* for start, end, _ in current_traject: every connection of the network
\* between start and end gets used = True
mark_used(conns, usedFlags, current_traject) ==
  [i \in 1..Len(conns) |->
     \/ usedFlags[i]
     \/ \E h \in 1..Len(current_traject) :
          {conns[i].station1, conns[i].station2}
            = {current_traject[h][1], current_traject[h][2]}]

\* the while loop of DijkstraAlgorithm.find_best_solution;
\* da_find_best_pass is one pass with the result of traject
RECURSIVE da_find_best_while(_, _, _, _, _)
RECURSIVE da_find_best_pass(_, _, _, _, _, _)
da_find_best_pass(conns, g, max_routes, time_limit, st, result) ==
  IF ~result.found
    THEN [st EXCEPT !.start_stations = result.start_stations,
                    !.visited_connections = result.visited_connections]
  ELSE da_find_best_while(conns, g, max_routes, time_limit,
         [trajects |->
            Append(st.trajects,
                   [hops |-> result.current_traject,
                    minutes |-> result.current_minutes]),
          visited_connections |-> result.visited_connections,
          start_stations |-> result.start_stations,
          valid_routes |-> st.valid_routes + 1,
          used |-> mark_used(conns, st.used, result.current_traject)])

da_find_best_while(conns, g, max_routes, time_limit, st) ==
  IF ~(st.valid_routes < max_routes) THEN st
  ELSE da_find_best_pass(conns, g, max_routes, time_limit, st,
         traject(conns, g, time_limit, st.start_stations,
                 st.visited_connections))

\* DijkstraAlgorithm.k_value
k_value(conns, trajects, visited_connections) ==
  LET total_connections == Len(conns)
      T == Len(trajects)
      total_minutes == SumSeq([i \in 1..Len(trajects) |->
                                 trajects[i].minutes])
  IN IF total_connections = 0
       THEN ZeroDivisionError
       ELSE [num |-> Cardinality(visited_connections) * 10000
                       - total_connections * (T * 100 + total_minutes),
             den |-> total_connections]

\* the conversion of one trajectory to a Route, from hop h on
RECURSIVE traject_route(_, _, _, _)
traject_route(conns, hops, h, route) ==
  IF h > Len(hops) THEN route
  ELSE
    LET conn == connection_between(conns, hops[h][1], hops[h][2])
    IN IF conn = 0 THEN traject_route(conns, hops, h + 1, route)
       ELSE traject_route(conns, hops, h + 1,
              [route EXCEPT
                 !.connections_used = @ \cup {conn},
                 !.stations = IF @ = <<>> THEN <<hops[h][1], hops[h][2]>>
                              ELSE Append(@, hops[h][2]),
                 !.total_time = @ + conns[conn].distance])

\* best_routes of find_best_solution
traject_routes(conns, trajects) ==
  SelectSeq([i \in 1..Len(trajects) |->
               traject_route(conns, trajects[i].hops, 1,
                             Route(DefaultTimeLimit))],
            LAMBDA route : route.total_time > 0)

\* the dict objects of the process: dicts[1] is the one the def statement
\* of Graph.__init__ created as the default value of its parameter graph
InitGraph ==
  /\ connections \in NetworksOver(ConsConnectionRecs, MaxNetConns)
  /\ used = [i \in 1..Len(connections) |-> FALSE]
  /\ routes = <<>>
  /\ added = <<>>
  /\ last = NoCall
  /\ pc = "idle"
  /\ cfg = NoCfg
  /\ loc = [at |-> "DijkstraAlgorithm", dicts |-> <<EmptyDict>>,
            instances |-> <<>>]
  /\ ret = NoRet

\* DijkstraAlgorithm(rail_network, time_limit, max_routes) on the network of
\* connections: self.graph = Graph() holds the default dict
DijkstraAlgorithmInit(max_routes, time_limit) ==
  /\ loc.instances = <<>>
  /\ cfg' = [alg |-> "DijkstraAlgorithm", max_routes |-> max_routes,
             time_limit |-> time_limit]
  /\ loc' = [loc EXCEPT
               !.dicts[1] = add_connections(@, connections, 1),
               !.instances = <<[connections |-> connections,
                                used |-> used, graph |-> 1]>>]
  /\ UNCHANGED <<connections, used, routes, added, last, pc, ret>>

\* a second DijkstraAlgorithm, on a RailNetwork of its own
DijkstraAlgorithmInitSecond(net) ==
  /\ Len(loc.instances) = 1
  /\ ~ret.set
  /\ loc' = [loc EXCEPT
               !.dicts[1] = add_connections(@, net, 1),
               !.instances = Append(@, [connections |-> net,
                                        used |-> [i \in 1..Len(net) |-> FALSE],
                                        graph |-> 1])]
  /\ UNCHANGED <<connections, used, routes, added, last, pc, cfg, ret>>

\* find_best_solution of instance k
DAFindBestSolution(k) ==
  /\ k \in 1..Len(loc.instances)
  /\ ~ret.set
  /\ \E st \in {da_find_best_while(loc.instances[k].connections,
                  loc.dicts[loc.instances[k].graph], cfg.max_routes,
                  cfg.time_limit,
                  [trajects |-> <<>>, visited_connections |-> {},
                   start_stations |-> {}, valid_routes |-> 0,
                   used |-> [i \in 1..Len(loc.instances[k].connections)
                               |-> FALSE]])} :
        /\ loc' = [loc EXCEPT !.instances[k].used = st.used]
        /\ used' = IF k = 1 THEN st.used ELSE used
        /\ ret' = [set |-> TRUE, alg |-> "DijkstraAlgorithm",
                   instance |-> k,
                   quality |-> k_value(loc.instances[k].connections,
                                       st.trajects, st.visited_connections),
                   routes |-> traject_routes(loc.instances[k].connections,
                                             st.trajects),
                   trajects |-> st.trajects,
                   visited_connections |-> st.visited_connections]
  /\ UNCHANGED <<connections, routes, added, last, pc, cfg>>

NextGraph ==
  \/ \E mr \in 1..MaxRoutesCfg, tl \in ConsTimeLimits :
        DijkstraAlgorithmInit(mr, tl)
  \/ \E net \in NetworksOver(ConsConnectionRecs, MaxConns) :
        DijkstraAlgorithmInitSecond(net)
  \/ \E k \in 1..2 : DAFindBestSolution(k)

SpecGraph == InitGraph /\ [][NextGraph]_vars

\* ------------------------- BeamSearchAlgorithm.find_best_solution
\* numbers of stations of the network that have no connection at all;
\* len(self.rail_network.stations) counts them, find_route_beam returns
\* None from them and the stable descending sort keeps them behind the
\* stations 1..NumStations, so that create_solution never picks them
IsolatedStations == {0, 1, 3}
BeamIterations == {1, 2}

\* float('-inf'): smaller than every quality
NegativeInfinity == [num |-> 0 - Infinity, den |-> 1]

\* the while loop of create_solution, all passes
RECURSIVE beam_create_solution_while(_, _, _, _, _, _, _, _)
beam_create_solution_while(conns, usedFlags, rts, routes_created, all_stations, beam_width, time_limit, max_routes) ==
  IF ~beam_continue(routes_created, max_routes)
    THEN [used |-> usedFlags, routes |-> rts]
  ELSE
    LET unused_count ==
          [s \in StationIds |->
             Cardinality({i \in Range(station_connections(conns, s)) :
                            ~usedFlags[i]})]
        stations_by_connections == SortDescBy(all_stations, unused_count)
        found == [s \in Range(all_stations) |->
                    find_route_beam(conns, usedFlags, beam_width,
                                    time_limit, s)]
        best == best_of_stations(found, stations_by_connections,
                  [found |-> FALSE, route |-> Route(DefaultTimeLimit),
                   score |-> 0, station |-> None])
    IN IF ~best.found
         THEN [used |-> usedFlags, routes |-> rts]
       ELSE beam_create_solution_while(conns,
              [i \in 1..Len(conns) |->
                 usedFlags[i] \/ i \in best.route.connections_used],
              Append(rts, best.route), routes_created + 1,
              SelectSeq(all_stations, LAMBDA s : s # best.station),
              beam_width, time_limit, max_routes)

\* BeamSearchAlgorithm.create_solution as one call: the used flags and the
\* routes it leaves in the network and the quality it returns
beam_create_solution(conns, beam_width, time_limit, max_routes) ==
  LET r == beam_create_solution_while(conns,
             [i \in 1..Len(conns) |-> FALSE], <<>>, 0, all_station_names,
             beam_width, time_limit, max_routes)
  IN [used |-> r.used, routes |-> r.routes,
      quality |-> calculate_quality(conns, r.used, r.routes)]

\* max_beam = min(iterations + 2, len(self.rail_network.stations) // 2)
max_beam(iterations, len_stations) ==
  IF iterations + 2 <= len_stations \div 2 THEN iterations + 2
  ELSE len_stations \div 2

\* best_routes = [Route() for _ in routes] filled with copies
beam_copy_routes(rts) ==
  [i \in 1..Len(rts) |-> [rts[i] EXCEPT !.time_limit = DefaultTimeLimit]]

\* if quality > best_quality
beam_improves(quality, best_quality) ==
  quality.num * best_quality.den > best_quality.num * quality.den

\* find_best_solution(iterations) up to the for loop
BeamFindBestSolution(iterations, max_routes, time_limit, isolated) ==
  /\ pc = "idle"
  /\ ~ret.set
  /\ cfg' = [alg |-> "BeamSearchAlgorithm", max_routes |-> max_routes,
             time_limit |-> time_limit, iterations |-> iterations,
             len_stations |-> NumStations + isolated]
  /\ loc' = [at |-> "find_best_solution",
             best_quality |-> NegativeInfinity,
             best_routes |-> <<>>,
             beam_width |-> 2,
             max_beam |-> max_beam(iterations, NumStations + isolated),
             passes |-> 0]
  /\ ret' = NoRet
  /\ pc' = "beam_for"
  /\ UNCHANGED <<connections, used, routes, added, last>>

\* one pass of the for loop over range(min_beam, max_beam + 1)
BeamWidthPass ==
  /\ pc = "beam_for"
  /\ loc.beam_width <= loc.max_beam
  /\ LET s == beam_create_solution(connections, loc.beam_width,
                                   cfg.time_limit, cfg.max_routes)
     IN /\ used' = s.used
        /\ routes' = s.routes
        /\ IF s.quality = ZeroDivisionError
             THEN /\ ret' = [set |-> TRUE, alg |-> "BeamSearchAlgorithm",
                             quality |-> ZeroDivisionError,
                             routes |-> <<>>]
                  /\ pc' = "idle"
                  /\ loc' = [loc EXCEPT !.passes = @ + 1]
             ELSE /\ loc' = [loc EXCEPT
                       !.beam_width = @ + 1,
                       !.passes = @ + 1,
                       !.best_quality =
                          IF beam_improves(s.quality, @) THEN s.quality
                          ELSE @,
                       !.best_routes =
                          IF beam_improves(s.quality, loc.best_quality)
                            THEN beam_copy_routes(s.routes)
                          ELSE @]
                  /\ UNCHANGED <<ret, pc>>
  /\ UNCHANGED <<connections, added, last, cfg>>

\* return best_quality, best_routes
BeamFindBestReturn ==
  /\ pc = "beam_for"
  /\ loc.beam_width > loc.max_beam
  /\ ret' = [set |-> TRUE, alg |-> "BeamSearchAlgorithm",
             quality |-> loc.best_quality, routes |-> loc.best_routes]
  /\ pc' = "idle"
  /\ UNCHANGED <<connections, used, routes, added, last, cfg, loc>>

NextBeam ==
  \/ \E it \in BeamIterations, mr \in 1..MaxRoutesCfg, tl \in ConsTimeLimits, iso \in IsolatedStations :
        BeamFindBestSolution(it, mr, tl, iso)
  \/ BeamWidthPass
  \/ BeamFindBestReturn

SpecBeam == InitCons /\ [][NextBeam]_vars

\* ------------------------------------------------- SolutionStatistics
\* self.total_time of SolutionStatistics.__init__
stats_total_time(rts) ==
  IF rts # <<>> THEN SumSeq([i \in 1..Len(rts) |-> rts[i].total_time]) ELSE 0

\* self.total_connections of SolutionStatistics.__init__
stats_total_connections(rts) ==
  IF rts # <<>>
    THEN SumSeq([i \in 1..Len(rts) |-> Cardinality(rts[i].connections_used)])
    ELSE 0

\* stats = SolutionStatistics(quality, routes, network) on the solution a
\* constructor returned
SolutionStatistics ==
  /\ pc = "idle"
  /\ ret.set
  /\ last = NoCall
  /\ last' = [op |-> "SolutionStatistics",
              quality |-> ret.quality,
              routes |-> ret.routes,
              total_time |-> stats_total_time(ret.routes),
              total_connections |-> stats_total_connections(ret.routes)]
  /\ UNCHANGED <<connections, used, routes, added, pc, cfg, loc, ret>>

NextCons ==
  \/ \E mr \in 1..MaxRoutesCfg, tl \in ConsTimeLimits : RunGreedy(mr, tl)
  \/ GreedySeed
  \/ GreedyReturn
  \/ \E mr \in 1..MaxRoutesCfg, tl \in ConsTimeLimits, bw \in BeamWidths :
        BeamCreateSolution(mr, tl, bw)
  \/ BeamRound
  \/ BeamReturn
  \/ \E mr \in 1..MaxRoutesCfg, tl \in ConsTimeLimits :
        DijkstraFindBestSolution(mr, tl)
  \/ DijkstraRound
  \/ DijkstraReturn
  \/ SolutionStatistics

SpecCons == InitCons /\ [][NextCons]_vars

\* ------------------------------------------ runs on one RailNetwork
\* for Algorithm, kwargs in algorithms: algorithm = Algorithm(network, ...)
\* quality, routes = algorithm.find_best_solution(**kwargs)
\* the loop keeps the same RailNetwork object for the next algorithm; the
\* result of the first run is remembered in last
NextAlgorithm ==
  /\ pc = "idle"
  /\ ret.set
  /\ \/ last = NoCall
     \/ last.op = "next_algorithm" /\ last.runs < 2
  /\ last' = [op |-> "next_algorithm",
              runs |-> IF last = NoCall THEN 1 ELSE last.runs + 1,
              first |-> IF last = NoCall THEN ret ELSE last.first]
  /\ ret' = NoRet
  /\ UNCHANGED <<connections, used, routes, added, pc, cfg, loc>>

\* the first algorithm of the loop on the network as loaded
DijkstraFirst(max_routes, time_limit) ==
  /\ last = NoCall
  /\ DijkstraFindBestSolution(max_routes, time_limit)

\* a later algorithm of the loop, same time_limit and max_routes
GreedyNext ==
  /\ last.op = "next_algorithm"
  /\ last.runs = 1
  /\ RunGreedy(cfg.max_routes, cfg.time_limit)

DijkstraNext ==
  /\ last.op = "next_algorithm"
  /\ DijkstraFindBestSolution(cfg.max_routes, cfg.time_limit)

NextRuns ==
  \/ \E mr \in 1..MaxRoutesCfg, tl \in ConsTimeLimits : DijkstraFirst(mr, tl)
  \/ DijkstraRound
  \/ DijkstraReturn
  \/ NextAlgorithm
  \/ GreedyNext
  \/ GreedySeed
  \/ GreedyReturn
  \/ DijkstraNext

SpecRuns == InitCons /\ [][NextRuns]_vars

\* --------------------------------------------- random constructors
\* RailNetwork.create_solution, RandomAlgorithm.create_solution and
\* BeamSearchAlgorithmV3.create_solution run on a network loaded with
\* connections of weight 60 or 130: two of the short ones fit in a route,
\* a long one fits in none.
RandomWeights == {60, 130}
RandomConnectionRecs ==
  {c \in [station1 : StationIds, station2 : StationIds,
          distance : RandomWeights] : c.station1 # c.station2}

\* the 120 of RailNetwork.create_route and the default time_limit of
\* RandomAlgorithm.create_route and BeamSearchAlgorithmV3
RandomTimeLimit == 120

\* possible_connections of the two create_route loops
possible_connections(conns, usedFlags, route, current_station, time_limit) ==
  {i \in Range(station_connections(conns, current_station)) :
     ~usedFlags[i] /\ route.total_time + conns[i].distance <= time_limit}

\* the while loop of RailNetwork.create_route: every route, with the used
\* flags it leaves, that some sequence of random.choice results produces
RECURSIVE network_create_route_from(_, _, _, _)
network_create_route_from(conns, usedFlags, route, current_station) ==
  LET possible == possible_connections(conns, usedFlags, route,
                                       current_station, RandomTimeLimit)
  IN IF possible = {} THEN {[route |-> route, used |-> usedFlags]}
     ELSE UNION {
       LET a == add_connection(route, conns, ci)
       IN IF ~a.ret THEN {[route |-> a.route, used |-> usedFlags]}
          ELSE network_create_route_from(conns,
                 [usedFlags EXCEPT ![ci] = TRUE], a.route,
                 get_other_station(conns[ci], current_station))
       : ci \in possible}

\* RailNetwork.create_route(start_station)
network_create_route(conns, usedFlags, start_station) ==
  network_create_route_from(conns, usedFlags, Route(DefaultTimeLimit),
                            start_station)

\* the while loop of RandomAlgorithm.create_route; the station reached is
\* appended once by add_connection and once more by the loop
RECURSIVE random_create_route_from(_, _, _, _)
random_create_route_from(conns, usedFlags, route, current_station) ==
  LET possible == possible_connections(conns, usedFlags, route,
                                       current_station, RandomTimeLimit)
  IN IF possible = {} THEN {[route |-> route, used |-> usedFlags]}
     ELSE UNION {
       LET a == add_connection(route, conns, ci)
           next_station == get_other_station(conns[ci], current_station)
       IN IF ~a.ret THEN {[route |-> a.route, used |-> usedFlags]}
          ELSE random_create_route_from(conns,
                 [usedFlags EXCEPT ![ci] = TRUE],
                 [a.route EXCEPT !.stations = Append(@, next_station)],
                 next_station)
       : ci \in possible}

\* RandomAlgorithm.create_route(start_station)
random_create_route(conns, usedFlags, start_station) ==
  random_create_route_from(conns, usedFlags,
    [Route(DefaultTimeLimit) EXCEPT !.stations = <<start_station>>],
    start_station)

\* unused_stations / stations_with_unused: the stations with a connection
\* whose used flag is not set, in load order
unused_stations(conns, usedFlags) ==
  SelectSeq(all_station_names,
            LAMBDA s : \E i \in Range(station_connections(conns, s)) :
                          ~usedFlags[i])

\* RouteHeuristics.calculate_connection_value for an unused connection,
\* multiplied by time_limit to stay in the integers
calculate_connection_value(conns, usedFlags, time_limit, ci, current_station, current_route_time) ==
  LET dest_station == get_other_station(conns[ci], current_station)
      nearby_unused ==
        Cardinality({i \in Range(station_connections(conns, dest_station)) :
                       ~usedFlags[i]})
      buffer_time == time_limit - 10
      time_penalty ==
        IF current_route_time + conns[ci].distance > buffer_time
          THEN 100 ELSE 0
  IN nearby_unused * time_limit - conns[ci].distance
       - time_penalty * time_limit

\* the connection between two neighbouring stations
v3_connection(conns, station1, station2) ==
  CHOOSE i \in 1..Len(conns) :
    {conns[i].station1, conns[i].station2} = {station1, station2}

\* temp_route of a move: the path extended by the destination of ci, and
\* its route_score multiplied by time_limit
v3_move(conns, usedFlags, time_limit, entry, ci) ==
  LET next_station == get_other_station(conns[ci], entry.station)
      score == calculate_connection_value(conns, usedFlags, time_limit, ci,
                                          entry.station, entry.total_time)
      new_time == entry.total_time + conns[ci].distance
      new_path == Append(entry.path, next_station)
      used_set == {v3_connection(conns, new_path[i], new_path[i + 1]) :
                     i \in 1..(Len(new_path) - 1)}
  IN [station |-> next_station, path |-> new_path, total_time |-> new_time,
      route |-> [stations |-> new_path, total_time |-> new_time,
                 connections_used |-> used_set,
                 time_limit |-> DefaultTimeLimit],
      route_score |-> (Cardinality(used_set) * 100 - new_time) * time_limit
                        + score * 10]

\* top_moves of a queue entry: the possible moves sorted by (score, dest)
\* descending, the best half of them and at least one. The list and the
\* keys are bound as values before the sort, which keeps the evaluation of
\* the enabling condition of a pass short.
top_moves(conns, usedFlags, time_limit, entry) ==
  LET possible_moves ==
        SelectSeq(station_connections(conns, entry.station),
          LAMBDA ci :
            /\ get_other_station(conns[ci], entry.station)
                 \notin Range(entry.path)
            /\ entry.total_time + conns[ci].distance <= time_limit
            /\ ~usedFlags[ci])
      key == [ci \in Range(possible_moves) |->
                calculate_connection_value(conns, usedFlags, time_limit, ci,
                  entry.station, entry.total_time) * (NumStations + 1)
                + get_other_station(conns[ci], entry.station)]
  IN CHOOSE top \in
       {IF sorted = <<>> THEN <<>>
        ELSE SubSeq(sorted, 1,
                    IF Len(sorted) \div 2 >= 1 THEN Len(sorted) \div 2 ELSE 1) :
        sorted \in {SortDescBy(moves, k) : moves \in {possible_moves},
                                           k \in {key}}} : TRUE

\* if route_score > best_score over the moves of one queue entry
RECURSIVE v3_best_of(_, _)
v3_best_of(moves, best) ==
  IF moves = <<>> THEN best
  ELSE v3_best_of(Tail(moves),
         IF ~best.found \/ Head(moves).route_score > best.score
           THEN [found |-> TRUE, route |-> Head(moves).route,
                 score |-> Head(moves).route_score]
           ELSE best)

\* one pass of the while loop of BeamSearchAlgorithmV3.create_route: the
\* queue and the best route after the entry at the head has been handled
\* (top_moves and the moves are bound as values, each evaluated once)
v3_pass(conns, usedFlags, time_limit, queue, best) ==
  CHOOSE result \in
    {[queue |-> Tail(queue) \o [k \in 1..Len(moves) |->
                                  [station |-> moves[k].station,
                                   path |-> moves[k].path,
                                   total_time |-> moves[k].total_time]],
      best |-> v3_best_of(moves, best)] :
     moves \in
       {<<>> \o [k \in 1..Len(top) |->
                   v3_move(conns, usedFlags, time_limit, Head(queue), top[k])] :
        top \in {top_moves(conns, usedFlags, time_limit, Head(queue))}}} :
    TRUE

\* the while loop of BeamSearchAlgorithmV3.create_route over the queue
RECURSIVE v3_while(_, _, _, _, _)
v3_while(conns, usedFlags, time_limit, queue, best) ==
  IF queue = <<>> THEN best
  ELSE CHOOSE result \in
         {v3_while(conns, usedFlags, time_limit, p.queue, p.best) :
            p \in {v3_pass(conns, usedFlags, time_limit, queue, best)}} :
         TRUE

\* BeamSearchAlgorithmV3.create_route(start_station): best_route, or the
\* empty Route() when no move was possible
v3_create_route(conns, usedFlags, time_limit, start_station) ==
  v3_while(conns, usedFlags, time_limit,
           <<[station |-> start_station, path |-> <<start_station>>,
              total_time |-> 0]>>,
           [found |-> FALSE, route |-> Route(DefaultTimeLimit),
            score |-> 0]).route

\* stations_with_unused[:min(3, len(stations_with_unused))] after the sort
\* by number of unused connections, descending
v3_start_stations(conns, usedFlags) ==
  LET unused_count ==
        [s \in StationIds |->
           Cardinality({i \in Range(station_connections(conns, s)) :
                          ~usedFlags[i]})]
  IN UNION {Range(SubSeq(sorted, 1, IF Len(sorted) < 3 THEN Len(sorted) ELSE 3)) :
            sorted \in {SortDescBy(stations, k) :
                          stations \in {unused_stations(conns, usedFlags)},
                          k \in {unused_count}}}

InitRandom ==
  /\ connections \in NetworksOver(RandomConnectionRecs, MaxNetConns)
  /\ used = [i \in 1..Len(connections) |-> FALSE]
  /\ routes = <<>>
  /\ added = <<>>
  /\ last = NoCall
  /\ pc = "idle"
  /\ cfg = NoCfg
  /\ loc = NoLoc
  /\ ret = NoRet

\* return self.calculate_quality() / self.rail_network.calculate_quality()
RandomFinish(alg) ==
  /\ ret' = [set |-> TRUE, alg |-> alg,
             quality |-> calculate_quality(connections, used, routes),
             routes |-> routes]
  /\ pc' = "idle"
  /\ UNCHANGED <<connections, used, routes, added, last, cfg, loc>>

\* RailNetwork.create_solution(max_routes) up to the while loop
NetworkCreateSolution(max_routes) ==
  /\ pc = "idle"
  /\ ~ret.set
  /\ cfg' = [alg |-> "RailNetwork", max_routes |-> max_routes,
             time_limit |-> RandomTimeLimit]
  /\ used' = [i \in 1..Len(connections) |-> FALSE]
  /\ routes' = <<>>
  /\ loc' = [at |-> "create_solution", routes_created |-> 0, passes |-> 0]
  /\ ret' = NoRet
  /\ pc' = "network_while"
  /\ UNCHANGED <<connections, added, last>>

\* one pass of the while loop of RailNetwork.create_solution
NetworkRound ==
  /\ pc = "network_while"
  /\ Len(routes) < cfg.max_routes
  /\ \E start_station \in Range(unused_stations(connections, used)) :
       \E r \in network_create_route(connections, used, start_station) :
          /\ used' = r.used
          /\ routes' = IF r.route.connections_used # {}
                         THEN Append(routes, r.route) ELSE routes
  /\ loc' = [loc EXCEPT !.passes = (@ + 1) % 2]
  /\ UNCHANGED <<connections, added, last, pc, cfg, ret>>

NetworkReturn ==
  /\ pc = "network_while"
  /\ \/ ~(Len(routes) < cfg.max_routes)
     \/ unused_stations(connections, used) = <<>>
  /\ RandomFinish("RailNetwork")

\* RandomAlgorithm.create_solution(max_routes) up to the while loop
RandomCreateSolution(max_routes) ==
  /\ pc = "idle"
  /\ ~ret.set
  /\ cfg' = [alg |-> "RandomAlgorithm", max_routes |-> max_routes,
             time_limit |-> RandomTimeLimit]
  /\ used' = [i \in 1..Len(connections) |-> FALSE]
  /\ routes' = <<>>
  /\ loc' = [at |-> "create_solution", routes_created |-> 0, passes |-> 0]
  /\ ret' = NoRet
  /\ pc' = "random_while"
  /\ UNCHANGED <<connections, added, last>>

\* one pass of the while loop of RandomAlgorithm.create_solution
RandomRound ==
  /\ pc = "random_while"
  /\ loc.routes_created < cfg.max_routes
  /\ \E start_station \in Range(unused_stations(connections, used)) :
       \E r \in random_create_route(connections, used, start_station) :
          IF r.route.connections_used # {}
            THEN /\ used' = [i \in 1..Len(connections) |->
                               r.used[i] \/ i \in r.route.connections_used]
                 /\ routes' = Append(routes, r.route)
                 /\ loc' = [loc EXCEPT !.routes_created = @ + 1,
                                        !.passes = (@ + 1) % 2]
            ELSE /\ used' = r.used
                 /\ loc' = [loc EXCEPT !.passes = (@ + 1) % 2]
                 /\ UNCHANGED routes
  /\ UNCHANGED <<connections, added, last, pc, cfg, ret>>

RandomReturn ==
  /\ pc = "random_while"
  /\ \/ ~(loc.routes_created < cfg.max_routes)
     \/ unused_stations(connections, used) = <<>>
  /\ RandomFinish("RandomAlgorithm")

\* BeamSearchAlgorithmV3(rail_network, max_routes=max_routes)
\* .create_solution() up to the while loop
V3CreateSolution(max_routes) ==
  /\ pc = "idle"
  /\ ~ret.set
  /\ cfg' = [alg |-> "BeamSearchAlgorithmV3", max_routes |-> max_routes,
             time_limit |-> RandomTimeLimit]
  /\ used' = [i \in 1..Len(connections) |-> FALSE]
  /\ routes' = <<>>
  /\ loc' = [at |-> "create_solution", routes_created |-> 0, passes |-> 0]
  /\ ret' = NoRet
  /\ pc' = "v3_while"
  /\ UNCHANGED <<connections, added, last>>

\* one pass of the while loop of BeamSearchAlgorithmV3.create_solution
V3Round ==
  /\ pc = "v3_while"
  /\ loc.routes_created < cfg.max_routes
  /\ \E start_station \in v3_start_stations(connections, used) :
       \E route \in {v3_create_route(connections, used, cfg.time_limit,
                                     start_station)} :
          IF route.connections_used # {}
            THEN /\ used' = [i \in 1..Len(connections) |->
                               used[i] \/ i \in route.connections_used]
                 /\ routes' = Append(routes, route)
                 /\ loc' = [loc EXCEPT !.routes_created = @ + 1,
                                        !.passes = (@ + 1) % 2]
            ELSE /\ loc' = [loc EXCEPT !.passes = (@ + 1) % 2]
                 /\ UNCHANGED <<used, routes>>
  /\ UNCHANGED <<connections, added, last, pc, cfg, ret>>

V3Return ==
  /\ pc = "v3_while"
  /\ \/ ~(loc.routes_created < cfg.max_routes)
     \/ unused_stations(connections, used) = <<>>
  /\ RandomFinish("BeamSearchAlgorithmV3")

NextRandom ==
  \/ \E mr \in 1..MaxRoutesCfg : NetworkCreateSolution(mr)
  \/ NetworkRound
  \/ NetworkReturn
  \/ \E mr \in 1..MaxRoutesCfg : RandomCreateSolution(mr)
  \/ RandomRound
  \/ RandomReturn
  \/ \E mr \in 1..MaxRoutesCfg : V3CreateSolution(mr)
  \/ V3Round
  \/ V3Return

\* a running call keeps running: the interpreter takes a step whenever one
\* is possible. loc.passes is the number of passes of the while loop so
\* far, modulo 2.
SpecRandom == InitRandom /\ [][NextRandom]_vars /\ WF_vars(NextRandom)

\* ----------------------------------------------------- GreedyAlgorithm
\* hill_climber.py imports GreedyAlgorithm from algorithms.greedy, which
\* defines no class of that name; the class is modelled from sections 4.1
\* to 4.3 of the specification.
\* quality(network): p from the union of the routes' connection sets,
\* 0 for a network without connections
greedy_algorithm_quality(conns, rts) ==
  IF Len(conns) = 0 THEN [num |-> 0, den |-> 1]
  ELSE [num |-> Cardinality(UNION {rts[i].connections_used :
                                     i \in 1..Len(rts)}) * 10000
                - Len(conns)
                    * (Len(rts) * 100
                       + SumSeq([i \in 1..Len(rts) |-> rts[i].total_time])),
        den |-> Len(conns)]

\* the single-route routine: from the current end station take the first
\* connection in adjacency order that is unused, within the time budget and
\* leads to a station not visited in this route, until there is none
RECURSIVE greedy_algorithm_create_route_from(_, _, _, _, _)
greedy_algorithm_create_route_from(conns, usedFlags, time_limit, route, current_station) ==
  LET visited == Range(route.stations) \cup {current_station}
      eligible ==
        SelectSeq(station_connections(conns, current_station),
          LAMBDA ci :
            /\ ~usedFlags[ci]
            /\ route.total_time + conns[ci].distance <= time_limit
            /\ get_other_station(conns[ci], current_station) \notin visited)
  IN IF eligible = <<>> THEN [route |-> route, used |-> usedFlags]
     ELSE LET ci == Head(eligible)
              other_station == get_other_station(conns[ci], current_station)
          IN greedy_algorithm_create_route_from(conns,
               [usedFlags EXCEPT ![ci] = TRUE], time_limit,
               [route EXCEPT
                  !.stations = IF @ = <<>>
                                 THEN <<current_station, other_station>>
                                 ELSE Append(@, other_station),
                  !.total_time = @ + conns[ci].distance,
                  !.connections_used = @ \cup {ci}],
               other_station)

\* GreedyAlgorithm(network, time_limit).create_route(start_station)
greedy_algorithm_create_route(conns, usedFlags, time_limit, start_station) ==
  greedy_algorithm_create_route_from(conns, usedFlags, time_limit,
                                     Route(time_limit), start_station)

\* the seeds in ascending order of degree, one after the other; a seed
\* whose route has no connection is discarded
RECURSIVE greedy_algorithm_seeds(_, _, _, _, _, _)
greedy_algorithm_seeds(conns, usedFlags, time_limit, max_routes, seeds, rts) ==
  IF seeds = <<>> \/ Len(rts) >= max_routes
    THEN [routes |-> rts, used |-> usedFlags]
    ELSE LET cr == greedy_algorithm_create_route(conns, usedFlags,
                                                 time_limit, Head(seeds))
         IN greedy_algorithm_seeds(conns, cr.used, time_limit, max_routes,
              Tail(seeds),
              IF cr.route.connections_used # {}
                THEN Append(rts, cr.route) ELSE rts)

\* GreedyAlgorithm(network, time_limit, max_routes).find_best_solution()
greedy_algorithm_find_best_solution(conns, time_limit, max_routes) ==
  LET res == greedy_algorithm_seeds(conns,
               [i \in 1..Len(conns) |-> FALSE], time_limit, max_routes,
               SortAscBy(all_station_names,
                 [s \in StationIds |-> Len(station_connections(conns, s))]),
               <<>>)
  IN [quality |-> greedy_algorithm_quality(conns, res.routes),
      routes |-> res.routes, used |-> res.used]

\* --------------------------------------------------------- HillClimber
\* The hill climber keeps lists of Route objects and copies them, so its
\* routes live in a heap: a sequence of objects addressed by their index.
\* A Route object refers to the list object of its stations and to the set
\* object of its connections. A set object is detached when its elements
\* are deepcopy copies of the network's Connection objects: setting the
\* used flag of such a copy does not touch the network.
HCWeights == {10, 30}
HCTimeLimits == {20, 120}
HCIterations == {0, 1, 2}
HCConnectionRecs ==
  {c \in [station1 : StationIds, station2 : StationIds,
          distance : HCWeights] : c.station1 # c.station2}

\* a list object holding items, allocated at the end of the heap
new_list_object(heap, items) ==
  [heap |-> Append(heap, [kind |-> "list", items |-> items]),
   id |-> Len(heap) + 1]

\* a Route object with its own stations list and connection set
new_route_object(heap, route, detached) ==
  LET n == Len(heap)
  IN [heap |-> heap \o
        <<[kind |-> "list", items |-> route.stations],
          [kind |-> "set", items |-> route.connections_used,
           detached |-> detached],
          [kind |-> "Route", stations |-> n + 1,
           connections_used |-> n + 2,
           total_time |-> route.total_time,
           time_limit |-> route.time_limit]>>,
      id |-> n + 3]

\* the Route objects of a sequence of route values, in a new list object
RECURSIVE new_routes_from(_, _, _)
new_routes_from(heap, rts, ids) ==
  IF Len(ids) = Len(rts) THEN new_list_object(heap, ids)
  ELSE LET r == new_route_object(heap, rts[Len(ids) + 1], FALSE)
       IN new_routes_from(r.heap, rts, Append(ids, r.id))

\* what a Route object holds
route_value(heap, rid) ==
  [stations |-> heap[heap[rid].stations].items,
   total_time |-> heap[rid].total_time,
   connections_used |-> heap[heap[rid].connections_used].items,
   time_limit |-> heap[rid].time_limit]

\* what the Route objects of a list object hold
routes_value(heap, lid) ==
  [k \in 1..Len(heap[lid].items) |-> route_value(heap, heap[lid].items[k])]

\* deepcopy of the items of a list of Route objects; a Route object that
\* occurs twice is copied once
RECURSIVE deepcopy_from(_, _, _)
deepcopy_from(heap, items, out) ==
  LET k == Len(out) + 1
  IN IF k > Len(items) THEN new_list_object(heap, out)
     ELSE IF \E j \in 1..(k - 1) : items[j] = items[k]
       THEN deepcopy_from(heap, items,
              Append(out, out[CHOOSE j \in 1..(k - 1) : items[j] = items[k]]))
     ELSE LET r == new_route_object(heap, route_value(heap, items[k]), TRUE)
          IN deepcopy_from(r.heap, items, Append(out, r.id))

\* copy_routes that hands back the list it was given
copy_routes_same_list(heap, lid) ==
  [heap |-> heap, id |-> lid]

\* HillClimber.copy_routes: deepcopy(routes)
copy_routes(heap, lid) ==
  deepcopy_from(heap, heap[lid].items, <<>>)

\* the copy made by find_single_solution: new Route() objects with
\* stations.copy(), total_time and connections_used.copy()
RECURSIVE single_solution_copy(_, _, _)
single_solution_copy(heap, items, out) ==
  LET k == Len(out) + 1
  IN IF k > Len(items) THEN new_list_object(heap, out)
     ELSE LET old == route_value(heap, items[k])
              r == new_route_object(heap,
                     [old EXCEPT !.time_limit = DefaultTimeLimit],
                     heap[heap[items[k]].connections_used].detached)
          IN single_solution_copy(r.heap, items, Append(out, r.id))

\* for conn in route.connections_used: conn.used = flag
set_used(heap, usedFlags, rid, flag) ==
  LET cs == heap[heap[rid].connections_used]
  IN IF cs.detached THEN usedFlags
     ELSE [i \in 1..Len(usedFlags) |->
             IF i \in cs.items THEN flag ELSE usedFlags[i]]

\* the start stations modify_route can pick for an option
start_stations(stations, optie) ==
  IF optie = 1
    THEN IF Len(stations) > 2 THEN {stations[Len(stations) - 1]}
         ELSE {stations[1]}
  ELSE IF optie = 2
    THEN IF Len(stations) > 2
           THEN {stations[k] : k \in 1..(Len(stations) - 1)}
           ELSE {stations[1]}
  ELSE Range(stations)

\* HillClimber.modify_route for a chosen start station: the route value
\* built and the used flags afterwards
modify_route(conns, usedFlags, max_time, start_station) ==
  LET cr == greedy_algorithm_create_route(conns, usedFlags, max_time,
                                          start_station)
  IN [route |-> IF cr.route.stations = <<>>
                  THEN [cr.route EXCEPT !.stations = <<start_station>>]
                  ELSE cr.route,
      used |-> cr.used]

\* new_quality > best_quality, whatever the comparison
hc_accepts_any(new_quality, best_quality) ==
  TRUE

\* if new_quality > best_quality
hc_accepts(new_quality, best_quality) ==
  new_quality.num * best_quality.den > best_quality.num * new_quality.den

\* reading self.current_routes when __init__ did not set it
AttributeError == [raised |-> "AttributeError"]

InitHC ==
  /\ connections \in NetworksOver(HCConnectionRecs, MaxConns)
  /\ used = [i \in 1..Len(connections) |-> FALSE]
  /\ routes = <<>>
  /\ added = <<>>
  /\ last = NoCall
  /\ pc = "idle"
  /\ cfg = NoCfg
  /\ loc = NoLoc
  /\ ret = NoRet

\* HillClimber(network, None, time_limit, max_routes): the initial solution
\* comes from GreedyAlgorithm, or is one route holding the first station
HillClimberInit(max_routes, time_limit) ==
  /\ pc = "idle"
  /\ loc = NoLoc
  /\ LET g == greedy_algorithm_find_best_solution(connections, time_limit,
                                                  max_routes)
         best == new_routes_from(<<>>, g.routes, <<>>)
         cur == IF g.routes # <<>>
                  THEN copy_routes(best.heap, best.id)
                  ELSE LET r == new_route_object(best.heap,
                                  [Route(time_limit) EXCEPT
                                     !.stations = <<all_station_names[1]>>],
                                  FALSE)
                       IN new_list_object(r.heap, <<r.id>>)
     IN /\ used' = g.used
        /\ routes' = g.routes
        /\ loc' = [at |-> "HillClimber", heap |-> cur.heap,
                   current_routes |-> cur.id]
  /\ cfg' = [alg |-> "HillClimber", max_routes |-> max_routes,
             time_limit |-> time_limit, initial_routes |-> FALSE]
  /\ pc' = "hc_ready"
  /\ UNCHANGED <<connections, added, last, ret>>

\* test_hill_climber_improvement: a route holding the first connection is
\* stored in network.routes and passed as initial_routes; __init__ then
\* sets no current_routes
HillClimberInitWithRoutes(max_routes, time_limit) ==
  /\ pc = "idle"
  /\ loc = NoLoc
  /\ Len(connections) >= 1
  /\ LET res == add_connection(Route(time_limit), connections, 1)
         initial_routes == new_routes_from(<<>>, <<res.route>>, <<>>)
     IN /\ used' = IF res.mark THEN [used EXCEPT ![1] = TRUE] ELSE used
        /\ routes' = <<res.route>>
        /\ loc' = [at |-> "HillClimber", heap |-> initial_routes.heap,
                   current_routes |-> None]
  /\ cfg' = [alg |-> "HillClimber", max_routes |-> max_routes,
             time_limit |-> time_limit, initial_routes |-> TRUE]
  /\ pc' = "hc_ready"
  /\ UNCHANGED <<connections, added, last, ret>>

\* HillClimber.find_best_solution(iterations) up to the while loop
HCFindBestSolution(iterations) ==
  /\ pc = "hc_ready"
  /\ used' = [i \in 1..Len(connections) |-> FALSE]
  /\ routes' = <<>>
  /\ cfg' = [cfg EXCEPT !.alg = "HillClimber.find_best_solution"]
               @@ [iterations |-> iterations]
  /\ LET quality == calculate_quality(connections, used', routes')
     IN IF loc.current_routes = None
          THEN /\ ret' = [set |-> TRUE, alg |-> "HillClimber"]
                           @@ AttributeError
               /\ pc' = "hc_done"
               /\ loc' = loc
        ELSE IF quality = ZeroDivisionError
          THEN /\ ret' = [set |-> TRUE, alg |-> "HillClimber"]
                           @@ ZeroDivisionError
               /\ pc' = "hc_done"
               /\ loc' = loc
        ELSE LET cp == copy_routes(loc.heap, loc.current_routes)
             IN /\ loc' = [loc EXCEPT !.heap = cp.heap]
                            @@ [best_quality |-> quality,
                                best_routes |-> cp.id,
                                initial_quality |-> quality,
                                i |-> 0]
                /\ pc' = "hc_while"
                /\ ret' = ret
  /\ UNCHANGED <<connections, added, last>>

\* one pass of the while loop: a route, an option and a start station are
\* drawn, the candidate replaces the route and is kept or taken back
HCIteration ==
  /\ pc = "hc_while"
  /\ loc.i < cfg.iterations
  /\ LET cur == loc.heap[loc.current_routes].items
     IN \E r \in 1..Len(cur), optie \in 1..3 :
        \E start_station \in
             start_stations(route_value(loc.heap, cur[r]).stations, optie) :
          LET old_route == cur[r]
              released == set_used(loc.heap, used, old_route, FALSE)
              m == modify_route(connections, released, cfg.time_limit,
                                start_station)
              new_route == new_route_object(loc.heap, m.route, FALSE)
              route_idx == CHOOSE j \in 1..Len(cur) :
                             /\ cur[j] = old_route
                             /\ \A k \in 1..(j - 1) : cur[k] # old_route
              replaced == [new_route.heap EXCEPT
                             ![loc.current_routes].items[route_idx] =
                               new_route.id]
              new_quality == calculate_quality(connections, m.used, routes)
          IN IF hc_accepts(new_quality, loc.best_quality)
               THEN LET cp == copy_routes(replaced, loc.current_routes)
                    IN /\ loc' = [loc EXCEPT !.heap = cp.heap,
                                             !.best_quality = new_quality,
                                             !.best_routes = cp.id,
                                             !.i = @ + 1]
                       /\ used' = m.used
                       /\ last' = [op |-> "accept", r |-> r]
               ELSE /\ loc' = [loc EXCEPT
                                 !.heap = [replaced EXCEPT
                                    ![loc.current_routes].items[route_idx] =
                                      old_route],
                                 !.i = @ + 1]
                    /\ used' = set_used(loc.heap, m.used, old_route, TRUE)
                    /\ last' = [op |-> "reject", r |-> r]
  /\ UNCHANGED <<connections, routes, added, pc, cfg, ret>>

\* return best_quality, best_routes
HCReturn ==
  /\ pc = "hc_while"
  /\ loc.i >= cfg.iterations
  /\ ret' = [set |-> TRUE, alg |-> "HillClimber",
             quality |-> loc.best_quality,
             routes |-> routes_value(loc.heap, loc.best_routes),
             routes_ref |-> loc.best_routes]
  /\ pc' = "hc_done"
  /\ UNCHANGED <<connections, used, routes, added, last, cfg, loc>>

\* HillClimber.find_single_solution()
HCFindSingleSolution ==
  /\ pc = "hc_ready"
  /\ cfg' = [cfg EXCEPT !.alg = "HillClimber.find_single_solution"]
  /\ LET quality == calculate_quality(connections, used, routes)
     IN IF quality = ZeroDivisionError
          THEN /\ ret' = [set |-> TRUE, alg |-> "HillClimber"]
                           @@ ZeroDivisionError
               /\ loc' = loc
        ELSE IF loc.current_routes = None
          THEN /\ ret' = [set |-> TRUE, alg |-> "HillClimber"]
                           @@ AttributeError
               /\ loc' = loc
        ELSE LET cp == single_solution_copy(loc.heap,
                         loc.heap[loc.current_routes].items, <<>>)
             IN /\ loc' = [loc EXCEPT !.heap = cp.heap]
                /\ ret' = [set |-> TRUE, alg |-> "HillClimber",
                           quality |-> quality,
                           routes |-> routes_value(cp.heap, cp.id),
                           routes_ref |-> cp.id]
  /\ pc' = "hc_done"
  /\ UNCHANGED <<connections, used, routes, added, last>>

\* the caller changes a route it was handed: a station is appended to its
\* stations, its connections_used is emptied and its total_time is set to 0
HCMutateReturned ==
  /\ pc = "hc_done"
  /\ "routes_ref" \in DOMAIN ret
  /\ \E k \in 1..Len(loc.heap[ret.routes_ref].items) :
       LET heap == loc.heap
           rid == heap[ret.routes_ref].items[k]
       IN loc' = [loc EXCEPT
                    !.heap = [heap EXCEPT
                       ![heap[rid].stations].items =
                         Append(@, all_station_names[1]),
                       ![heap[rid].connections_used].items = {},
                       ![rid].total_time = 0]]
  /\ last' = [op |-> "mutate"]
  /\ pc' = "hc_mutated"
  /\ UNCHANGED <<connections, used, routes, added, cfg, ret>>

NextHC ==
  \/ \E mr \in 1..MaxRoutesCfg, tl \in HCTimeLimits : HillClimberInit(mr, tl)
  \/ \E mr \in 1..MaxRoutesCfg, tl \in HCTimeLimits :
        HillClimberInitWithRoutes(mr, tl)
  \/ \E it \in HCIterations : HCFindBestSolution(it)
  \/ HCIteration
  \/ HCReturn
  \/ HCFindSingleSolution
  \/ HCMutateReturned

SpecHC == InitHC /\ [][NextHC]_vars

\* the hill climber on networks of up to MaxNetConns connections: a
\* candidate can then take a connection outside the route it replaces
\* without covering more connections than before
InitHCNet ==
  /\ connections \in NetworksOver(HCConnectionRecs, MaxNetConns)
  /\ used = [i \in 1..Len(connections) |-> FALSE]
  /\ routes = <<>>
  /\ added = <<>>
  /\ last = NoCall
  /\ pc = "idle"
  /\ cfg = NoCfg
  /\ loc = NoLoc
  /\ ret = NoRet

SpecHCNet == InitHCNet /\ [][NextHC]_vars

\* -------------------------------------------------- properties of Route
\* a quality result that is the number v
IsValue(q, v) == "num" \in DOMAIN q /\ q.num = v * q.den

\* C1: in every reachable state, whatever add_connection calls were made
\* (accepted or refused, adjacent or not), every route's total_time is at
\* most its time_limit.
C1_TotalTimeWithinLimit ==
  \A r \in 1..Len(routes) : routes[r].total_time <= routes[r].time_limit

\* a refused call on a route that already carries time, refused because the
\* connection no longer fits
C1_Witness ==
  /\ last.op = "add_connection"
  /\ ~last.ret
  /\ routes[last.r].total_time > 0
  /\ routes[last.r].total_time + connections[last.c].distance
       > routes[last.r].time_limit

\* C2: an add_connection call that returns False leaves the route
\* (stations, total_time, connections_used) and the connection's used flag
\* as they were before the call.
C2_FalseLeavesStateUnchanged ==
  [][(last'.op = "add_connection" /\ ~last'.ret)
       => (routes' = routes /\ used' = used)]_vars

\* C3: after k >= 1 successful add_connection calls with k distinct
\* connections, connections_used has k elements and stations k+1 entries.
C3_EverySuccessRecorded ==
  \A r \in 1..Len(routes) :
    (Len(added[r]) >= 1 /\ NoDuplicates(added[r]))
      => /\ Cardinality(routes[r].connections_used) = Len(added[r])
         /\ Len(routes[r].stations) = Len(added[r]) + 1

\* the connections successfully added to some route
AddedSomewhere == UNION {Range(added[r]) : r \in 1..Len(added)}

\* C5: with flags starting False and routes filled only through
\* add_connection, calculate_quality on n >= 1 connections returns
\* (k/n)*10000 - (100*T + sum of total_time), k the number of distinct
\* connections successfully added to some route; it is 4870 for connections
\* of weight 30 and 40 and one route holding the weight-30 one.
C5_QualityOfAddedConnections ==
  (last.op = "calculate_quality" /\ Len(connections) >= 1)
    => /\ last.ret =
            [num |-> Cardinality(AddedSomewhere) * 10000
                       - Len(connections)
                           * (100 * Len(routes)
                              + SumSeq([r \in 1..Len(routes) |->
                                          routes[r].total_time])),
             den |-> Len(connections)]
       /\ (/\ Len(connections) = 2
           /\ {connections[1].distance, connections[2].distance} = {30, 40}
           /\ Len(routes) = 1
           /\ Len(added[1]) = 1
           /\ connections[added[1][1]].distance = 30
           /\ routes[1].total_time = 30)
            => IsValue(last.ret, 4870)

C5_Witness ==
  /\ last.op = "calculate_quality"
  /\ Len(connections) = 2
  /\ {connections[1].distance, connections[2].distance} = {30, 40}
  /\ Len(routes) = 1
  /\ Len(added[1]) = 1
  /\ connections[added[1][1]].distance = 30
  /\ last.ret = [num |-> 9740, den |-> 2]

\* C6: with zero connections calculate_quality returns 0; with at least one
\* connection and no route it returns p*10000 with p = 0.
C6_ZeroConnectionsGiveZero ==
  last.op = "calculate_quality"
    => /\ Len(connections) = 0 => IsValue(last.ret, 0)
       /\ (Len(connections) >= 1 /\ routes = <<>>) => IsValue(last.ret, 0)

\* the call is adjacent to the route's last station and leads to a station
\* the route already holds
Revisits(route, conn) ==
  /\ route.stations # <<>>
  /\ route.stations[Len(route.stations)] \in {conn.station1, conn.station2}
  /\ get_other_station(conn, route.stations[Len(route.stations)])
       \in Range(route.stations)

\* C9: add_connection returns False and does not extend the route when the
\* connection is adjacent to the last station but leads to a station already
\* in the route, and no route ever holds a station twice.
C9_RevisitRefused ==
  /\ [](\A r \in 1..Len(routes) : NoDuplicates(routes[r].stations))
  /\ [][(last'.op = "add_connection"
           /\ Revisits(routes[last'.r], connections[last'.c]))
          => (~last'.ret
              /\ routes'[last'.r].stations = routes[last'.r].stations)]_vars

\* ------------------------------------------ properties of constructors
\* the value p*10000 - (T*100 + Min) with p the share of the connections
\* that are in the connections_used set of some route of rts
QualityOfRouteSets(conns, rts) ==
  [num |-> Cardinality(UNION {rts[i].connections_used : i \in 1..Len(rts)})
             * 10000
           - Len(conns)
               * (Len(rts) * 100
                  + SumSeq([i \in 1..Len(rts) |-> rts[i].total_time])),
   den |-> Len(conns)]

\* C4: in every state a constructor reaches, calculate_quality returns
\* p*10000 - (T*100 + Min) with p computed from the union of the routes'
\* connections_used sets, not from the used flags.
C4_QualityFromRouteSets ==
  (ret.set /\ Len(connections) >= 1)
    => ret.quality = QualityOfRouteSets(connections, routes)

\* C7: the solution under construction and the solution returned by
\* Greedy.runGreedy, BeamSearchAlgorithm.create_solution and
\* DijkstraHeuristicAlgorithm.find_best_solution hold at most max_routes
\* routes.
C7_AtMostMaxRoutes ==
  /\ pc \in {"greedy_for", "greedy_return", "beam_while", "beam_return"}
       => Len(routes) <= cfg.max_routes
  /\ pc \in {"dijkstra_while", "dijkstra_combine"}
       => Len(loc.routes) <= cfg.max_routes
  /\ ret.set => /\ Len(ret.routes) <= cfg.max_routes
                /\ Len(routes) <= cfg.max_routes

\* a beam construction that stopped with max_routes routes while another
\* start station still had a route to offer
C7_Witness ==
  /\ pc = "beam_while"
  /\ cfg.max_routes >= 1
  /\ Len(routes) = cfg.max_routes
  /\ \E s \in Range(loc.all_stations) :
       find_route_beam(connections, used, cfg.beam_width, cfg.time_limit,
                       s).found

\* C8: no route built by Greedy.create_route and no route returned by
\* BeamSearchAlgorithm.find_route_beam holds a station twice.
C8_NoStationTwice ==
  /\ loc.at = "runGreedy"
       => \A k \in 1..Len(loc.built) :
            NoDuplicates(loc.built[k].route.stations)
  /\ loc.at = "create_solution"
       => \A k \in 1..Len(loc.found) :
            loc.found[k].found => NoDuplicates(loc.found[k].route.stations)

\* a route returned by find_route_beam whose last station has a connection
\* back to its first station that would still fit the time limit
C8_Witness ==
  /\ loc.at = "create_solution"
  /\ \E k \in 1..Len(loc.found) :
       LET r == loc.found[k].route
       IN /\ loc.found[k].found
          /\ Len(r.stations) >= 3
          /\ \E ci \in 1..Len(connections) :
               /\ {connections[ci].station1, connections[ci].station2}
                    = {r.stations[1], r.stations[Len(r.stations)]}
               /\ r.total_time + connections[ci].distance <= cfg.time_limit

\* C10: on stations A, B, C with A-B (10) and B-C (15), Greedy with
\* max_routes = 1 and time_limit = 120 returns one route over both
\* connections with total_time 25 and quality 9875.
C10_GreedyScenario ==
  (/\ ret.set
   /\ ret.alg = "Greedy"
   /\ cfg.max_routes = 1
   /\ cfg.time_limit = 120
   /\ connections = <<[station1 |-> 1, station2 |-> 2, distance |-> 10],
                      [station1 |-> 2, station2 |-> 3, distance |-> 15]>>)
    => /\ Len(ret.routes) = 1
       /\ Len(ret.routes[1].stations) = 3
       /\ ret.routes[1].stations[2] = 2
       /\ {ret.routes[1].stations[1], ret.routes[1].stations[3]} = {1, 3}
       /\ ret.routes[1].total_time = 25
       /\ IsValue(ret.quality, 9875)

\* the number of connections of a station (len(station.connections))
degree(s) == Len(station_connections(connections, s))

EdgeWeightSum(conns, stations) ==
  SumSeq([k \in 1..(IF Len(stations) = 0 THEN 0 ELSE Len(stations) - 1) |->
            LET ci == CHOOSE i \in 1..Len(conns) :
                        {conns[i].station1, conns[i].station2}
                          = {stations[k], stations[k + 1]}
            IN conns[ci].distance])

\* C20: when Greedy.create_route returns, the station it stands on has no
\* connection that is unused, fits the time limit on top of the weights of
\* the route's edges and leads to a station not yet in the route.
C20_StopsOnlyWhenNoEligible ==
  loc.at = "runGreedy"
    => \A k \in 1..Len(loc.built) :
         LET b == loc.built[k]
         IN \A ci \in Range(station_connections(connections,
                                                b.current_station)) :
              ~ /\ ~b.used[ci]
                /\ EdgeWeightSum(connections, b.route.stations)
                     + connections[ci].distance <= cfg.time_limit
                /\ get_other_station(connections[ci], b.current_station)
                     \notin (Range(b.route.stations) \cup {b.current_station})

\* C18: SolutionStatistics.total_connections is the number of distinct
\* connections in the union of the routes' connections_used sets, a
\* connection present in several routes counted once, 0 for no routes.
C18_TotalConnectionsDistinct ==
  last.op = "SolutionStatistics"
    => last.total_connections
         = Cardinality(UNION {last.routes[i].connections_used :
                                i \in 1..Len(last.routes)})

\* C15: a run of DijkstraHeuristicAlgorithm.find_best_solution that follows
\* other runs on the same RailNetwork object returns the quality and the
\* routes that the first run on the fresh network returned
C15_SameResultOnEveryRun ==
  (ret.set /\ ret.alg = "DijkstraHeuristicAlgorithm"
     /\ last.op = "next_algorithm")
    => (ret.quality = last.first.quality /\ ret.routes = last.first.routes)

\* C16: for a network with at least one connection
\* BeamSearchAlgorithm.find_best_solution returns a finite quality and the
\* routes of a solution it constructed in one of its passes
C16_FiniteQualityAndConstructedRoutes ==
  (ret.set /\ ret.alg = "BeamSearchAlgorithm" /\ loc.at = "find_best_solution"
     /\ Len(connections) >= 1)
    => /\ ret.quality # NegativeInfinity
       /\ loc.passes >= 1

\* C17: every call of RailNetwork.create_solution,
\* RandomAlgorithm.create_solution and BeamSearchAlgorithmV3.create_solution
\* terminates, whatever the random choices are
C17_CreateSolutionTerminates ==
  (pc \in {"network_while", "random_while", "v3_while"}) ~> ret.set

\* C21: after Greedy.runGreedy has returned, a connection has its used
\* flag set if and only if it is in the connections_used set of a route
\* kept in network.routes
C21_FlagsAreKeptRouteConnections ==
  (ret.set /\ ret.alg = "Greedy")
    => \A i \in 1..Len(connections) :
         used[i] <=> \E k \in 1..Len(routes) : i \in routes[k].connections_used

\* C22: the routes of one BeamSearchAlgorithm.create_solution result are
\* pairwise edge-disjoint: find_route_beam never takes a connection whose
\* used flag was set when the search started
C22_BeamRoutesEdgeDisjoint ==
  (ret.set /\ ret.alg = "BeamSearchAlgorithm" /\ loc.at = "create_solution")
    => \A j, k \in 1..Len(ret.routes) :
         j # k => ret.routes[j].connections_used
                    \cap ret.routes[k].connections_used = {}

\* C23: where find_best_solution is about to call calculate_start_station,
\* the station returned has exactly one unvisited connection when such a
\* station exists, otherwise it has the most unvisited connections, and it
\* is None only when every connection is in visited_connections
C23_StartStationChoice ==
  (pc = "dijkstra_while" /\ dijkstra_continue(loc.routes, cfg.max_routes))
    => LET visited == loc.visited_connections
           count(s) == unvisited_count(connections, visited, s)
           start_station == calculate_start_station(connections, visited)
       IN /\ (\E s \in StationIds : count(s) = 1) => count(start_station) = 1
          /\ ((\A s \in StationIds : count(s) # 1)
                /\ (\E s \in StationIds : count(s) > 0))
               => /\ start_station \in StationIds
                  /\ \A s \in StationIds : count(s) <= count(start_station)
          /\ start_station = None
               => \A i \in 1..Len(connections) : i \in visited

\* the simple paths that leave a station over connections outside the
\* visited set, each with its stations, its connections and its weight
RECURSIVE SimplePathsFrom(_, _, _)
SimplePathsFrom(conns, visited_connections, paths) ==
  LET longer ==
        {[stations |-> Append(p.stations,
                              get_other_station(conns[i],
                                                p.stations[Len(p.stations)])),
          used |-> p.used \cup {i},
          weight |-> p.weight + conns[i].distance] :
           <<p, i>> \in
             {<<q, j>> \in paths \X (1..Len(conns)) :
                /\ j \notin visited_connections
                /\ q.stations[Len(q.stations)]
                     \in {conns[j].station1, conns[j].station2}
                /\ get_other_station(conns[j], q.stations[Len(q.stations)])
                     \notin Range(q.stations)}}
  IN IF longer \subseteq paths THEN paths
     ELSE SimplePathsFrom(conns, visited_connections, paths \cup longer)

\* the weight of a lightest path from the source to a station
ShortestDistance(conns, visited_connections, source, target) ==
  LET paths == {p \in SimplePathsFrom(conns, visited_connections,
                        {[stations |-> <<source>>, used |-> {},
                          weight |-> 0]}) :
                  p.stations[Len(p.stations)] = target}
  IN IF paths = {} THEN Infinity
     ELSE CHOOSE w \in {p.weight : p \in paths} :
            \A p \in paths : w <= p.weight

\* C24: find_route returns a route whose station sequence starts at the
\* source and is a minimum-weight path over unvisited connections from the
\* source to a station whose shortest-path distance is the largest among the
\* stations reachable within time_limit; total_time equals that distance and
\* connections_used holds exactly the connections of that path.
C24_FindRouteShortestToFarthest ==
  (pc = "dijkstra_while" /\ dijkstra_continue(loc.routes, cfg.max_routes)
     /\ calculate_start_station(connections, loc.visited_connections) # None)
    => LET visited == loc.visited_connections
           source == calculate_start_station(connections, visited)
           route == find_route(connections, used, cfg.time_limit, source,
                               visited).route
           dist(s) == ShortestDistance(connections, visited, source, s)
           reachable == {s \in StationIds \ {source} :
                           dist(s) <= cfg.time_limit}
       IN reachable # {}
            => \E p \in SimplePathsFrom(connections, visited,
                          {[stations |-> <<source>>, used |-> {},
                            weight |-> 0]}) :
                 /\ route.stations = p.stations
                 /\ route.connections_used = p.used
                 /\ route.total_time = p.weight
                 /\ p.weight = dist(p.stations[Len(p.stations)])
                 /\ p.stations[Len(p.stations)] \in reachable
                 /\ \A s \in reachable : dist(s) <= p.weight

\* the connections the hops of a station sequence run over, hop by hop;
\* 0 for a hop that no connection joins
hop_connections(conns, stations) ==
  [k \in 1..(IF Len(stations) = 0 THEN 0 ELSE Len(stations) - 1) |->
     connection_between(conns, stations[k], stations[k + 1])]

\* C25: every route returned by DijkstraHeuristicAlgorithm.find_best_solution,
\* the routes merged by combine_routes included, is a simple path: it holds
\* no station twice, every hop runs over a connection of the route and no
\* connection is traversed twice.
C25_ReturnedRoutesSimplePaths ==
  (ret.set /\ ret.alg = "DijkstraHeuristicAlgorithm")
    => \A k \in 1..Len(ret.routes) :
         LET route == ret.routes[k]
             hops == hop_connections(connections, route.stations)
         IN /\ NoDuplicates(route.stations)
            /\ NoDuplicates(hops)
            /\ Range(hops) = route.connections_used

\* C26: every hop that DijkstraAlgorithm.traject records joins the two
\* endpoints of a connection of the network; in every route returned by
\* DijkstraAlgorithm.find_best_solution two consecutive stations are joined
\* by a connection, and the station pairs K counts are connections.
C26_HopsAreConnections ==
  (ret.set /\ ret.alg = "DijkstraAlgorithm")
    => LET net == loc.instances[ret.instance].connections
       IN /\ \A t \in 1..Len(ret.trajects) :
               \A h \in 1..Len(ret.trajects[t].hops) :
                 connection_between(net, ret.trajects[t].hops[h][1],
                                    ret.trajects[t].hops[h][2]) # 0
          /\ \A r \in 1..Len(ret.routes) :
               0 \notin Range(hop_connections(net, ret.routes[r].stations))
          /\ \A pair \in ret.visited_connections :
               \E i \in 1..Len(net) :
                 {net[i].station1, net[i].station2} = pair

\* C30: the graph of every DijkstraAlgorithm instance holds exactly the
\* connections of the instance's own rail_network, whatever other instances
\* were created, so that its shortest distances are those of its network.
C30_GraphOfOwnNetwork ==
  (loc.at = "DijkstraAlgorithm")
    => \A k \in 1..Len(loc.instances) :
         LET self == loc.instances[k]
             g == loc.dicts[self.graph]
             own == add_connections(EmptyDict, self.connections, 1)
         IN /\ g.weight = own.weight
            /\ \A source \in Range(own.nodes) :
                 \A n \in Range(own.nodes) :
                   shortest_distances(g, source)[n]
                     = shortest_distances(own, source)[n]

\* ------------------------------------------- properties of HillClimber
\* quality a is at most quality b
QualityLeq(a, b) == a.num * b.den <= b.num * a.den

\* C11: during HillClimber.find_best_solution best_quality never decreases
\* from one iteration to the next, and the quality returned after N
\* iterations is at least the quality held before the first iteration.
C11_BestQualityNeverDecreases ==
  /\ [][(pc = "hc_while" /\ pc' = "hc_while")
          => QualityLeq(loc.best_quality, loc'.best_quality)]_vars
  /\ []((pc = "hc_done" /\ "routes_ref" \in DOMAIN ret
           /\ cfg.alg = "HillClimber.find_best_solution")
          => QualityLeq(loc.initial_quality, ret.quality))

\* a candidate was taken back after an earlier one had raised best_quality
C11_Witness ==
  /\ pc = "hc_while"
  /\ loc.i >= 2
  /\ last.op = "reject"
  /\ ~QualityLeq(loc.best_quality, loc.initial_quality)

\* the list object, the Route objects and their station lists and
\* connection sets reachable from a list of Route objects
ObjectsOf(heap, lid) ==
  {lid} \cup UNION {{heap[lid].items[k],
                     heap[heap[lid].items[k]].stations,
                     heap[heap[lid].items[k]].connections_used} :
                    k \in 1..Len(heap[lid].items)}

\* C12: the routes returned by find_best_solution and find_single_solution
\* share no object with current_routes, changing a returned route leaves
\* every route of current_routes as it was, and an iteration that takes no
\* new snapshot leaves best_routes as it was.
C12_ReturnedRoutesIsolated ==
  /\ []((pc = "hc_done" /\ "routes_ref" \in DOMAIN ret)
          => ObjectsOf(loc.heap, ret.routes_ref)
               \cap ObjectsOf(loc.heap, loc.current_routes) = {})
  /\ [][(pc = "hc_done" /\ pc' = "hc_mutated")
          => routes_value(loc'.heap, loc.current_routes)
               = routes_value(loc.heap, loc.current_routes)]_vars
  /\ [][(pc = "hc_while" /\ pc' = "hc_while"
           /\ loc'.best_routes = loc.best_routes)
          => routes_value(loc'.heap, loc.best_routes)
               = routes_value(loc.heap, loc.best_routes)]_vars

\* a route returned by find_best_solution after an accepted iteration has
\* been changed by the caller
C12_Witness ==
  /\ pc = "hc_mutated"
  /\ cfg.alg = "HillClimber.find_best_solution"
  /\ ~QualityLeq(loc.best_quality, loc.initial_quality)
  /\ routes_value(loc.heap, ret.routes_ref) # ret.routes
  /\ routes_value(loc.heap, loc.current_routes) = ret.routes

\* C13: a HillClimber constructed with a non-empty initial_routes list has
\* a current_routes attribute holding at least one route, and
\* find_best_solution and find_single_solution return a quality and routes
\* for it without error.
C13_InitialRoutesKept ==
  (loc.at = "HillClimber" /\ cfg.initial_routes)
    => /\ loc.current_routes # None
       /\ Len(loc.heap[loc.current_routes].items) >= 1
       /\ pc = "hc_done" => "routes_ref" \in DOMAIN ret

\* C14: every route in the list returned by find_best_solution has at
\* least two stations.
C14_ReturnedRoutesHaveTwoStations ==
  (pc = "hc_done" /\ cfg.alg = "HillClimber.find_best_solution"
     /\ "routes_ref" \in DOMAIN ret)
    => \A k \in 1..Len(ret.routes) : Len(ret.routes[k].stations) >= 2

\* C27: an iteration of find_best_solution that rejects its candidate leaves
\* current_routes and the used flag of every connection of the network as
\* they were immediately before the iteration.
C27_RejectRestoresFlags ==
  [][(pc = "hc_while" /\ pc' = "hc_while" /\ loc'.i = loc.i + 1
        /\ last'.op = "reject")
       => /\ used' = used
          /\ routes_value(loc'.heap, loc'.current_routes)
               = routes_value(loc.heap, loc.current_routes)]_vars

\* C28: after every iteration of find_best_solution, and on return,
\* best_quality equals p*10000 - (T*100 + Min) computed from best_routes:
\* p the fraction of the network's connections that best_routes cover, T the
\* number of routes in best_routes and Min the sum of their total_time.
C28_BestQualityOfBestRoutes ==
  /\ (pc = "hc_while" /\ loc.i >= 1)
       => LET q == QualityOfRouteSets(connections,
                     routes_value(loc.heap, loc.best_routes))
          IN loc.best_quality.num * q.den = q.num * loc.best_quality.den
  /\ (pc = "hc_done" /\ cfg.alg = "HillClimber.find_best_solution"
        /\ "routes_ref" \in DOMAIN ret)
       => LET q == QualityOfRouteSets(connections, ret.routes)
          IN ret.quality.num * q.den = q.num * ret.quality.den

\* the sum of the weights of the connections that join the consecutive
\* stations of a route
hop_weight_sum(conns, route) ==
  LET hops == hop_connections(conns, route.stations)
  IN SumSeq([k \in 1..Len(hops) |->
               IF hops[k] = 0 THEN 0 ELSE conns[hops[k]].distance])

\* C29: for every route built through Route.add_connection by
\* Greedy.create_route or by RailNetwork.create_route, total_time equals the
\* sum of the weights of the connections joining consecutive stations of the
\* route: a refused add_connection adds nothing to total_time.
C29_TotalTimeIsHopWeightSum ==
  /\ loc.at = "runGreedy"
       => \A k \in 1..Len(loc.built) :
            loc.built[k].route.total_time
              = hop_weight_sum(connections, loc.built[k].route)
  /\ cfg.alg = "RailNetwork"
       => \A k \in 1..Len(routes) :
            routes[k].total_time = hop_weight_sum(connections, routes[k])

====
